---- MODULE Spec2Model ----
(***************************************************************************)
(* Client-side session, route-guard and page-fetch orchestration of the    *)
(* marathon-trainer frontend.  The repository holds two parallel frontend  *)
(* trees, both modelled:                                                   *)
(*   tree "A": fetchApi (cookie session), useAuth hook / AuthProvider      *)
(*             with {user,isLoading,isAuthenticated,error}, the            *)
(*             ProtectedRoute variants of frontend/components;             *)
(*   tree "B": ApiClient (bearer token cookie), AuthContext with           *)
(*             {user,loading}, frontend/src/components/ProtectedRoute.     *)
(***************************************************************************)
EXTENDS Integers, Sequences, FiniteSets, TLC

VARIABLES
  cfg,           \* which implementation is mounted: [tree, guard, requireProfile]
  srv,           \* backend truth for GET /auth/me: "none" | "noprofile" | "profile"
  srvHist,       \* every value srv had since the page was opened
  cookie,        \* js-cookie entry access_token: "none" | "tok" (tree B only)
  session,       \* the provider's state: [user, isLoading, isAuthenticated, error]
  isRedirecting, \* ProtectedRoute's latch (isRedirecting variant)
  mounted,       \* the mount effects have run
  inflight,      \* outstanding GET /auth/me requests: [seq, resp, cont]
  issued,        \* number of user resolutions (fetchUser/refreshUser) started
  settled,       \* the user resolutions that have settled: [seq, user,
                 \*   fetched], user the user it resolved to (NoUser when it
                 \*   failed), fetched whether it sent GET /auth/me
  applied,       \* sequence number of the fetch whose result the session holds
  calls,         \* number of protected-resource calls made so far
  nav,           \* navigations issued so far, in order: <<by, to>>
  renderLog,     \* successive distinct outputs of the route guard
  deps,          \* dependency values the guard's effect last ran with
  ev,            \* the handler that produced the current state, with its input
  page,          \* component state of the page under the guard, by page name
  pending,       \* the page's own requests in flight: [id, op, resp, ...]
  env            \* the browser's clock: [tz, day, hour], local day and hour

authVars == <<cfg, srv, srvHist, cookie, session, isRedirecting, mounted, inflight,
              issued, settled, applied, calls, nav, renderLog, deps, ev>>

pageVars == <<page, pending, env>>

vars == <<authVars, pageVars>>

----------------------------------------------------------------------------
(* Bounds of the model *)

MaxFetches == 3    \* user fetches per page load (the mount's and two refreshes)
MaxCalls == 2      \* protected-resource calls per page load

----------------------------------------------------------------------------
(* Values *)

NoUser == "null"
Users == {"noprofile", "profile"}
HasProfile(u) == u = "profile"

NoError == "null"

\* No page component is mounted under the guard.
NoPage == [name |-> "none"]

\* The browser's clock: tz is the offset of local time from UTC in hours,
\* day and hour the local calendar day (a day number) and hour of day.
Env(tz, day, hour) == [tz |-> tz, day |-> day, hour |-> hour]

Max(S) == CHOOSE x \in S : \A y \in S : y <= x

Last(s) == s[Len(s)]

\* An HTTP exchange as the client sees it. status 0: fetch() itself rejected
\* (network failure). body: "data" (the endpoint's JSON payload),
\* "detail" (JSON with a detail field), "nodetail" (JSON without one),
\* "notjson" (a body response.json() rejects). data: the payload of a 2xx
\* answer (the user of GET /auth/me, the plan, the run list).
Resp(status, body, data) == [status |-> status, body |-> body, data |-> data]

RespOk(r) == r.status >= 200 /\ r.status <= 299

\* What GET /auth/me answers for the backend state s: 401 without a session.
MeResponse(s) ==
  IF s = "none" THEN Resp(401, "detail", NoUser) ELSE Resp(200, "data", s)

\* Faults any request can meet whatever the backend state is.
FaultResponses == {Resp(500, "notjson", NoUser), Resp(0, "notjson", NoUser)}

\* The operations a client exposes; tree B logs out locally, without a call.
Endpoints(tree) ==
  {"getMe", "getProfile", "createProfile", "getRuns", "syncRuns",
   "getTrainingPlan", "generateTrainingPlan"}
    \cup (IF tree = "A" THEN {"logout"} ELSE {})

----------------------------------------------------------------------------
(* The two API clients *)

Outcome(ok, data, kind, message, status, navs, clearToken) ==
  [ok |-> ok, data |-> data, kind |-> kind, message |-> message,
   status |-> status, navs |-> navs, clearToken |-> clearToken]

\* fetchApi of tree A: the redirect on 401 is taken only when the caller left
\* requireAuth at its default; the error is always the typed ApiError.
FetchApiNavsIgnoringOption(resp, requireAuth) ==
  IF resp.status = 401 THEN <<"/">> ELSE <<>>

FetchApiNavs(resp, requireAuth) ==
  IF resp.status = 401 /\ requireAuth THEN <<"/">> ELSE <<>>

FetchApiMessage(resp) ==
  CASE resp.body = "detail" -> "detail"
    [] resp.body = "nodetail" -> "Request failed"
    [] OTHER -> "Unknown error"

FetchApi(resp, requireAuth) ==
  IF resp.status = 0
    THEN Outcome(FALSE, NoUser, "TypeError", "fetch failed", 0, <<>>, FALSE)
  ELSE IF ~RespOk(resp)
    THEN Outcome(FALSE, NoUser, "ApiError", FetchApiMessage(resp), resp.status,
                 FetchApiNavs(resp, requireAuth), FALSE)
  ELSE IF resp.body = "notjson"
    THEN Outcome(FALSE, NoUser, "SyntaxError", "invalid json", 0, <<>>, FALSE)
  ELSE Outcome(TRUE, resp.data, "none", NoError, resp.status, <<>>, FALSE)

\* ApiClient.request of tree B: every 401 removes the token cookie and assigns
\* window.location.href; errors are plain Error objects without a status.
ApiClientNavs(resp) ==
  IF resp.status = 401 THEN <<"/">> ELSE <<>>

ApiClientMessage(resp) ==
  CASE resp.status = 401 -> "Unauthorized"
    [] resp.body = "detail" -> "detail"
    [] OTHER -> "HTTP error! status"

ApiClientRequest(resp) ==
  IF resp.status = 0
    THEN Outcome(FALSE, NoUser, "TypeError", "fetch failed", 0, <<>>, FALSE)
  ELSE IF ~RespOk(resp)
    THEN Outcome(FALSE, NoUser, "Error", ApiClientMessage(resp), 0,
                 ApiClientNavs(resp), resp.status = 401)
  ELSE IF resp.body = "notjson"
    THEN Outcome(FALSE, NoUser, "SyntaxError", "invalid json", 0, <<>>, FALSE)
  ELSE Outcome(TRUE, resp.data, "none", NoError, 0, <<>>, FALSE)

\* authApi.getMe passes requireAuth: false; every other operation of tree A
\* leaves the default.
RequireAuthOf(ep) == ep # "getMe"

\* The client call a page or the provider makes for endpoint ep.
ClientCall(tree, ep, resp) ==
  IF tree = "A" THEN FetchApi(resp, RequireAuthOf(ep)) ELSE ApiClientRequest(resp)

\* Navigations the API client itself issued, as nav entries.
ApiNavs(o) == [i \in 1..Len(o.navs) |-> <<"api", o.navs[i]>>]


----------------------------------------------------------------------------
(* The session provider *)

Session(user, isLoading, isAuthenticated, error) ==
  [user |-> user, isLoading |-> isLoading,
   isAuthenticated |-> isAuthenticated, error |-> error]

\* useState's initial value. Tree B's provider keeps only user and loading;
\* its isAuthenticated and error stay at these values.
InitialSession == Session(NoUser, TRUE, FALSE, NoError)

\* fetchUser of tree A once authApi.getMe has settled with outcome o.
FetchUserError(o) ==
  IF o.kind = "ApiError" THEN o.message ELSE "Failed to fetch user"

\* Faulty variant: the failure branch leaves isAuthenticated set.
FetchUserSettleStillAuthenticated(o) ==
  IF o.ok THEN Session(o.data, FALSE, TRUE, NoError)
          ELSE Session(NoUser, FALSE, TRUE, FetchUserError(o))

\* Faulty variant: the failure branch forgets to clear isLoading.
FetchUserSettleStillLoading(o) ==
  IF o.ok THEN Session(o.data, FALSE, TRUE, NoError)
          ELSE Session(NoUser, TRUE, FALSE, FetchUserError(o))

FetchUserSettle(o) ==
  IF o.ok THEN Session(o.data, FALSE, TRUE, NoError)
          ELSE Session(NoUser, FALSE, FALSE, FetchUserError(o))

\* refresh of tree A, before its fetch is issued.
RefreshStart(s) == [s EXCEPT !.isLoading = TRUE]

\* refreshUser of tree B once api.getMe has settled with outcome o: setUser
\* only, loading is left to initAuth.
RefreshUserSettle(s, o) ==
  [s EXCEPT !.user = IF o.ok THEN o.data ELSE NoUser]

\* refreshUser of tree B when no token cookie is stored: setUser(null), no fetch.
RefreshUserNoToken(s) == [s EXCEPT !.user = NoUser]

\* Faulty variant: initAuth without its setLoading(false).
InitAuthStillLoading(s) == s

\* initAuth of tree B after awaiting refreshUser.
InitAuthDone(s) == [s EXCEPT !.isLoading = FALSE]

\* Whether the session counts as signed in for the guard of that tree.
SignedIn(tree, s) ==
  IF tree = "A" THEN s.isAuthenticated ELSE s.user # NoUser

----------------------------------------------------------------------------
(* The route guard *)

\* The dependency array of the guard's effect.
GuardDeps(c, s) ==
  IF c.tree = "A"
    THEN <<s.isLoading, s.isAuthenticated, s.user, c.requireProfile>>
    ELSE <<s.user, s.isLoading, c.requireProfile>>

\* Faulty variant: the effect without its profile branch.
GuardEffectTargetRootOnly(c, s) ==
  IF s.isLoading THEN "none"
  ELSE IF c.tree = "A"
    THEN IF ~s.isAuthenticated THEN "/" ELSE "none"
    ELSE IF s.user = NoUser THEN "/" ELSE "none"

\* Faulty variant: the effect without its isLoading check.
GuardEffectTargetWhileLoading(c, s) ==
  IF c.tree = "A"
    THEN IF ~s.isAuthenticated THEN "/"
         ELSE IF c.requireProfile /\ s.user # NoUser /\ ~HasProfile(s.user)
           THEN "/onboarding"
         ELSE "none"
    ELSE IF s.user = NoUser THEN "/"
         ELSE IF c.requireProfile /\ ~HasProfile(s.user) THEN "/onboarding"
         ELSE "none"

\* The router.push target of the guard's effect, "none" when it pushes nothing.
GuardEffectTarget(c, s) ==
  IF s.isLoading THEN "none"
  ELSE IF c.tree = "A"
    THEN IF ~s.isAuthenticated THEN "/"
         ELSE IF c.requireProfile /\ s.user # NoUser /\ ~HasProfile(s.user)
           THEN "/onboarding"
         ELSE "none"
    ELSE IF s.user = NoUser THEN "/"
         ELSE IF c.requireProfile /\ ~HasProfile(s.user) THEN "/onboarding"
         ELSE "none"

\* Faulty variant: the guard without its signed-in check.
GuardRenderNoAuthCheck(c, s, redirecting) ==
  IF s.isLoading THEN "spinner"
  ELSE IF c.requireProfile /\ s.user # NoUser /\ ~HasProfile(s.user) THEN "null"
  ELSE "children"

\* Faulty variant: the isRedirecting flag is left out of the render condition.
GuardRenderWithoutLatch(c, s, redirecting) ==
  CASE c.guard = "plain" ->
         IF s.isLoading THEN "spinner"
         ELSE IF ~s.isAuthenticated THEN "null"
         ELSE IF c.requireProfile /\ s.user # NoUser /\ ~HasProfile(s.user)
           THEN "null"
         ELSE "children"
    [] c.guard = "latch" ->
         IF \/ s.isLoading
            \/ ~s.isAuthenticated
            \/ (c.requireProfile /\ s.user # NoUser /\ ~HasProfile(s.user))
           THEN "spinner"
         ELSE "children"
    [] OTHER ->
         IF s.isLoading THEN "spinner"
         ELSE IF s.user = NoUser THEN "null"
         ELSE IF c.requireProfile /\ ~HasProfile(s.user) THEN "null"
         ELSE "children"

\* What the guard returns: "spinner", "null" or "children".
GuardRender(c, s, redirecting) ==
  CASE c.guard = "plain" ->
         IF s.isLoading THEN "spinner"
         ELSE IF ~s.isAuthenticated THEN "null"
         ELSE IF c.requireProfile /\ s.user # NoUser /\ ~HasProfile(s.user)
           THEN "null"
         ELSE "children"
    [] c.guard = "latch" ->
         IF \/ s.isLoading
            \/ redirecting
            \/ ~s.isAuthenticated
            \/ (c.requireProfile /\ s.user # NoUser /\ ~HasProfile(s.user))
           THEN "spinner"
         ELSE "children"
    [] OTHER ->
         IF s.isLoading THEN "spinner"
         ELSE IF s.user = NoUser THEN "null"
         ELSE IF c.requireProfile /\ ~HasProfile(s.user) THEN "null"
         ELSE "children"

\* The three-state reading of the guard's output.
GuardState(c, s, redirecting) ==
  LET out == GuardRender(c, s, redirecting)
  IN IF out = "children" THEN "GRANTED"
     ELSE IF s.isLoading THEN "PENDING"
     ELSE "DENIED"

\* The guard the Onboarding page of tree A carries inline: signed-out users go
\* to "/", users who already have a profile go to "/dashboard".
OnboardingGuardTarget(s) ==
  IF ~s.isLoading /\ ~s.isAuthenticated THEN "/"
  ELSE IF ~s.isLoading /\ s.user # NoUser /\ HasProfile(s.user) THEN "/dashboard"
  ELSE "none"

OnboardingGuardRender(s, redirecting) ==
  IF s.isLoading \/ redirecting THEN "spinner" ELSE "children"

\* The navigation effect of tree A's callback page: a settled session goes
\* to "/dashboard" or "/onboarding" when signed in and to "/" when not.
CallbackTarget(s) ==
  IF ~s.isLoading /\ s.isAuthenticated
    THEN IF s.user # NoUser /\ HasProfile(s.user) THEN "/dashboard"
         ELSE "/onboarding"
  ELSE IF ~s.isLoading /\ ~s.isAuthenticated THEN "/"
  ELSE "none"

\* The guard in force for configuration c: the page's inline one, the
\* callback page's navigation effect (tree A; tree B's callback page has
\* none and always shows its spinner), or the ProtectedRoute component.
PageGuardTarget(c, s) ==
  IF c.guard = "inline" THEN OnboardingGuardTarget(s)
  ELSE IF c.guard = "callback" THEN CallbackTarget(s)
  ELSE IF c.guard = "none" THEN "none"
  ELSE GuardEffectTarget(c, s)

PageGuardRender(c, s, redirecting) ==
  IF c.guard = "inline" THEN OnboardingGuardRender(s, redirecting)
  ELSE IF c.guard \in {"callback", "none"} THEN "spinner"
  ELSE GuardRender(c, s, redirecting)

AppendIfNew(log, out) == IF Last(log) = out THEN log ELSE Append(log, out)

\* One React commit: the session becomes s2 after the handler issued the
\* navigations navs0; the guard re-renders, its effect runs when a dependency
\* changed, and the latch variant re-renders once more with isRedirecting set.
Commit(s2, navs0) ==
  LET d2 == GuardDeps(cfg, s2)
      tgt == PageGuardTarget(cfg, s2)
      push == d2 # deps /\ tgt # "none"
      red2 == IF push /\ cfg.guard \in {"latch", "inline"} THEN TRUE
              ELSE isRedirecting
      out1 == PageGuardRender(cfg, s2, isRedirecting)
      out2 == PageGuardRender(cfg, s2, red2)
  IN /\ session' = s2
     /\ deps' = d2
     /\ isRedirecting' = red2
     /\ nav' = IF push THEN Append(navs0, <<"guard", tgt>>) ELSE navs0
     /\ renderLog' = AppendIfNew(AppendIfNew(renderLog, out1), out2)


----------------------------------------------------------------------------
(* Page load of a guarded page: state and steps *)

NoResp == Resp(0 - 1, "none", NoUser)
NoOutcome == Outcome(FALSE, NoUser, "none", NoError, 0, <<>>, FALSE)

\* The handler that ran last: op names it, ep the endpoint, seq the user fetch,
\* resp the response it consumed, o what the API client made of it, and
\* tokenBefore the cookie the handler started with.
Event(op, ep, seq, resp, o, tokenBefore) ==
  [op |-> op, ep |-> ep, seq |-> seq, resp |-> resp, o |-> o,
   tokenBefore |-> tokenBefore]

Configs ==
  [tree : {"A"}, guard : {"plain", "latch"}, requireProfile : BOOLEAN]
    \cup [tree : {"B"}, guard : {"src"}, requireProfile : BOOLEAN]

Request(seq, resp, cont) == [seq |-> seq, resp |-> resp, cont |-> cont]

\* The answers a GET /auth/me issued now can come back with.
MeResponses == {MeResponse(srv)} \cup FaultResponses

\* The answers a call to endpoint ep issued now can come back with.
EndpointResponses(ep) ==
  IF ep = "getMe" THEN MeResponses
  ELSE (IF srv = "none" THEN {Resp(401, "detail", NoUser)}
        ELSE {Resp(200, "data", NoUser), Resp(404, "detail", NoUser),
              Resp(422, "nodetail", NoUser)})
         \cup FaultResponses

Init ==
  /\ cfg \in Configs
  /\ srv \in {"none", "noprofile", "profile"}
  /\ srvHist = {srv}
  /\ cookie \in (IF cfg.tree = "B" THEN {"none", "tok"} ELSE {"none"})
  /\ session = InitialSession
  /\ isRedirecting = FALSE
  /\ mounted = FALSE
  /\ inflight = {}
  /\ issued = 0
  /\ settled = {}
  /\ applied = 0
  /\ calls = 0
  /\ nav = <<>>
  /\ renderLog = <<GuardRender(cfg, InitialSession, FALSE)>>
  /\ deps = <<>>
  /\ ev = Event("init", "none", 0, NoResp, NoOutcome, cookie)
  /\ page = NoPage
  /\ pending = {}
  /\ env = Env(0, 0, 0)

\* Faulty variant: the request is sent again behind the first.
IssueFetchTwice(resp, cont) ==
  /\ issued' = issued + 1
  /\ inflight' = inflight \cup {Request(issued + 1, resp, cont),
                                Request(issued + 2, resp, cont)}
  /\ UNCHANGED <<settled, applied>>

\* Faulty variant: a fetch started while another is outstanding joins it.
IssueFetchShared(resp, cont) ==
  /\ issued' = issued + 1
  /\ inflight' = IF inflight = {} THEN {Request(issued + 1, resp, cont)}
                 ELSE inflight
  /\ UNCHANGED <<settled, applied>>

\* A user fetch leaves: GET /auth/me is on the wire with its answer decided.
IssueFetch(resp, cont) ==
  /\ issued' = issued + 1
  /\ inflight' = inflight \cup {Request(issued + 1, resp, cont)}
  /\ UNCHANGED <<settled, applied>>

\* refreshUser of tree B without a token: it settles at once, with no fetch.
SettleAtOnce ==
  /\ issued' = issued + 1
  /\ settled' = settled \cup {[seq |-> issued + 1, user |-> NoUser,
                               fetched |-> FALSE]}
  /\ applied' = issued + 1
  /\ UNCHANGED inflight

\* The mount effects: fetchUser() in tree A, initAuth() in tree B.
Mount ==
  /\ ~mounted
  /\ mounted' = TRUE
  /\ \/ /\ cfg.tree = "A"
        /\ \E resp \in MeResponses : IssueFetch(resp, "fetchUser")
        /\ Commit(session, nav)
     \/ /\ cfg.tree = "B"
        /\ cookie = "none"
        /\ SettleAtOnce
        /\ Commit(InitAuthDone(RefreshUserNoToken(session)), nav)
     \/ /\ cfg.tree = "B"
        /\ cookie # "none"
        /\ \E resp \in MeResponses : IssueFetch(resp, "init")
        /\ Commit(session, nav)
  /\ ev' = Event("mount", "getMe", issued + 1, NoResp, NoOutcome, cookie)
  /\ UNCHANGED <<cfg, srv, srvHist, cookie, calls>>
  /\ UNCHANGED pageVars

\* A caller invokes refresh() (tree A) or refreshUser() (tree B).
Refresh ==
  /\ mounted
  /\ issued < MaxFetches
  /\ \/ /\ cfg.tree = "A"
        /\ \E resp \in MeResponses : IssueFetch(resp, "fetchUser")
        /\ Commit(RefreshStart(session), nav)
     \/ /\ cfg.tree = "B"
        /\ cookie = "none"
        /\ SettleAtOnce
        /\ Commit(RefreshUserNoToken(session), nav)
     \/ /\ cfg.tree = "B"
        /\ cookie # "none"
        /\ \E resp \in MeResponses : IssueFetch(resp, "refreshUser")
        /\ Commit(session, nav)
  /\ ev' = Event("refresh", "getMe", issued + 1, NoResp, NoOutcome, cookie)
  /\ UNCHANGED <<cfg, srv, srvHist, cookie, mounted, calls>>
  /\ UNCHANGED pageVars

\* What the caller awaiting refreshUser() does once it resolves: tree B's
\* onboarding form pushes "/dashboard" and clears its busy flag; the
\* provider's own callers do nothing more.
AfterRefreshNavs(cont) ==
  IF cont = "onboarding" THEN << <<"page", "/dashboard">> >> ELSE <<>>

AfterRefreshPage(cont, pg) ==
  IF cont = "onboarding" THEN [pg EXCEPT !.isSubmitting = FALSE] ELSE pg

\* The answer to an outstanding GET /auth/me arrives and its awaiting
\* continuation runs to the end.
Deliver ==
  \E r \in inflight :
    LET o == ClientCall(cfg.tree, "getMe", r.resp)
        afterSet == RefreshUserSettle(session, o)
        s2 == IF cfg.tree = "A" THEN FetchUserSettle(o)
              ELSE IF r.cont = "init" THEN InitAuthDone(afterSet)
              ELSE afterSet
    IN /\ inflight' = inflight \ {r}
       /\ settled' = settled \cup {[seq |-> r.seq, user |-> o.data,
                                   fetched |-> TRUE]}
       /\ applied' = r.seq
       /\ cookie' = IF cfg.tree = "B" /\ ~o.ok THEN "none" ELSE cookie
       /\ Commit(s2, nav \o ApiNavs(o) \o AfterRefreshNavs(r.cont))
       /\ page' = AfterRefreshPage(r.cont, page)
       /\ ev' = Event("deliver", "getMe", r.seq, r.resp, o, cookie)
       /\ UNCHANGED <<cfg, srv, srvHist, mounted, issued, calls>>
       /\ UNCHANGED <<pending, env>>

\* One operation of the API client, from the request to the settled promise.
CallEndpoint ==
  /\ mounted
  /\ calls < MaxCalls
  /\ \E ep \in Endpoints(cfg.tree) :
     \E resp \in EndpointResponses(ep) :
       LET o == ClientCall(cfg.tree, ep, resp)
       IN /\ nav' = nav \o ApiNavs(o)
          /\ cookie' = IF o.clearToken THEN "none" ELSE cookie
          /\ ev' = Event("call", ep, 0, resp, o, cookie)
  /\ calls' = calls + 1
  /\ UNCHANGED <<cfg, srv, srvHist, session, isRedirecting, mounted, inflight,
                 issued, settled, applied, renderLog, deps>>
  /\ UNCHANGED pageVars

\* The backend's view of the user changes: a profile is created, or the
\* session ends or begins.
ServerChange ==
  /\ \E s2 \in {"none", "noprofile", "profile"} :
       /\ s2 # srv
       /\ s2 = "profile" => srv = "noprofile"
       /\ s2 = "noprofile" => srv = "none"
       /\ srv' = s2
       /\ srvHist' = srvHist \cup {s2}
  /\ UNCHANGED <<cfg, cookie, session, isRedirecting, mounted, inflight, issued,
                 settled, applied, calls, nav, renderLog, deps, ev>>
  /\ UNCHANGED pageVars

Next == Mount \/ Refresh \/ Deliver \/ ServerChange

Spec == Init /\ [][Next]_vars

----------------------------------------------------------------------------
(* The API client on its own: any operation, any answer *)

InitApi ==
  /\ cfg \in {c \in Configs : c.requireProfile /\ c.guard # "latch"}
  /\ srv \in {"none", "noprofile", "profile"}
  /\ srvHist = {srv}
  /\ cookie \in (IF cfg.tree = "B" THEN {"none", "tok"} ELSE {"none"})
  /\ session = InitialSession
  /\ isRedirecting = FALSE
  /\ mounted = TRUE
  /\ inflight = {}
  /\ issued = 0
  /\ settled = {}
  /\ applied = 0
  /\ calls = 0
  /\ nav = <<>>
  /\ renderLog = <<GuardRender(cfg, InitialSession, FALSE)>>
  /\ deps = <<>>
  /\ ev = Event("init", "none", 0, NoResp, NoOutcome, cookie)
  /\ page = NoPage
  /\ pending = {}
  /\ env = Env(0, 0, 0)

NextApi == CallEndpoint \/ ServerChange

SpecApi == InitApi /\ [][NextApi]_vars


----------------------------------------------------------------------------
(* Claims about the API client *)

\* The step is an API-client call that consumed a 401 response.
Call401Step ==
  /\ calls' = calls + 1
  /\ ev'.op = "call"
  /\ ev'.resp.status = 401

\* The client cleared the token and issued exactly one navigation, to "/",
\* and the call failed.
RedirectedOnce ==
  /\ nav' = Append(nav, <<"api", "/">>)
  /\ cookie' = "none"
  /\ ~ev'.o.ok

\* C1 as stated: every API-client call that receives a 401, whatever the
\* endpoint and whatever the caller passed, clears the stored token, issues
\* exactly one navigation to "/" and fails.
C1_Every401Redirects == [][Call401Step => RedirectedOnce]_vars

\* C1 amended: a 401 always fails the call and leaves no stored token; the
\* client issues exactly one navigation to "/" unless the call was made with
\* requireAuth=false (fetchApi's option, passed by authApi.getMe only), in
\* which case it issues none.
C1_401RedirectsUnlessOptedOut ==
  [][Call401Step =>
       IF cfg.tree = "A" /\ ~RequireAuthOf(ev'.ep)
         THEN nav' = nav /\ cookie' = "none" /\ ~ev'.o.ok
         ELSE RedirectedOnce]_vars

\* Reached: tree A after two calls that both met a 401, getMe (which issued
\* no navigation) and then getProfile (which issued the only one).
C1_Witness ==
  /\ cfg.tree = "A" /\ calls = 2 /\ srvHist = {"none"}
  /\ ev.op = "call" /\ ev.ep = "getProfile" /\ ev.resp.status = 401
  /\ nav = << <<"api", "/">> >>


----------------------------------------------------------------------------
(* Claims about the route guard *)

Rendered(out) == \E i \in 1..Len(renderLog) : renderLog[i] = out

Pushed(by, to) == \E i \in 1..Len(nav) : nav[i] = <<by, to>>

\* The backend never had a session for this browser during the page load.
Unauthenticated == srvHist = {"none"}

\* The backend had a session without a profile during the whole page load.
SignedInWithoutProfile == srvHist = {"noprofile"}

\* C2: an unauthenticated user opens a protected page: the guard's first
\* output is the loading state, once the session has settled the guard has
\* pushed "/" (and nothing else), and the children were rendered in no state.
C2_UnauthenticatedNeverSeesChildren ==
  Unauthenticated =>
    /\ renderLog[1] = "spinner"
    /\ ~Rendered("children")
    /\ ~Pushed("guard", "/onboarding")
    /\ (mounted /\ ~session.isLoading) => Pushed("guard", "/")

C2_Witness ==
  /\ Unauthenticated /\ mounted /\ ~session.isLoading
  /\ Pushed("guard", "/") /\ Len(renderLog) >= 1

\* C3: a signed-in user without a profile opens a page guarded with
\* requireProfile: once the session holds that user the guard has pushed
\* "/onboarding", and the children were rendered in no state.
C3_NoProfileRedirectsToOnboarding ==
  (SignedInWithoutProfile /\ cfg.requireProfile) =>
    /\ ~Rendered("children")
    /\ (~session.isLoading /\ session.user # NoUser)
          => Pushed("guard", "/onboarding")

C3_Witness ==
  /\ SignedInWithoutProfile /\ cfg.requireProfile
  /\ ~session.isLoading /\ session.user = "noprofile"
  /\ Pushed("guard", "/onboarding")

----------------------------------------------------------------------------
(* Claims about the session provider *)

\* The user fetch that settled and was issued last.
LatestSettled == CHOOSE f \in settled : \A g \in settled : g.seq <= f.seq

\* C4: whenever the session is not loading, the user it holds is the one the
\* most recently issued settled fetch returned: an earlier fetch's response
\* never replaces a later fetch's.
C4_NoStaleSession ==
  (~session.isLoading /\ settled # {}) => session.user = LatestSettled.user

\* C5: a refresh that issues a user fetch leaves the session loading.
C5_RefreshSetsLoading ==
  (ev.op = "refresh" /\ \E r \in inflight : r.seq = ev.seq) => session.isLoading

\* C10: fetchUser settles the session to {user, false, true, null} on success
\* and to {null, false, false, message} on any failure.
C10_FetchUserSettlesToOneOfTwo ==
  (cfg.tree = "A" /\ ev.op = "deliver") =>
    IF ev.resp.status = 200
      THEN session = Session(ev.resp.data, FALSE, TRUE, NoError)
      ELSE /\ session.user = NoUser
           /\ ~session.isLoading
           /\ ~session.isAuthenticated
           /\ session.error \in {"detail", "Request failed", "Unknown error",
                                 "Failed to fetch user"}

C10_Witness ==
  /\ cfg.tree = "A" /\ ev.op = "deliver" /\ ev.resp.status = 0
  /\ session = Session(NoUser, FALSE, FALSE, "Failed to fetch user")

----------------------------------------------------------------------------
(* The plan page: /plan of tree A (frontend/app) and of tree B (frontend/src) *)

MaxPageCalls == 3   \* requests one page issues per visit

NoPlan == "null"

\* The answers GET /api/training-plan and POST .../generate can come back with.
PlanResponses ==
  {Resp(200, "data", "plan"), Resp(404, "detail", NoPlan),
   Resp(401, "detail", NoPlan), Resp(500, "detail", NoPlan)} \cup FaultResponses

\* useState initial values of the plan page.
PlanPageInit ==
  [name |-> "plan", plan |-> NoPlan, isLoading |-> TRUE, isGenerating |-> FALSE,
   error |-> NoError]

\* The message a catch block stores: tree A keeps an ApiError's message and
\* falls back to its own text, tree B keeps the message of any Error.
CaughtMessage(tree, o, fallback) ==
  IF tree = "A" THEN (IF o.kind = "ApiError" THEN o.message ELSE fallback)
  ELSE o.message

\* fetchPlan once its request has settled with outcome o.
FetchPlanSettle(tree, pg, o) ==
  IF tree = "A"
    THEN IF o.ok
           THEN [pg EXCEPT !.plan = o.data, !.error = NoError, !.isLoading = FALSE]
         ELSE IF o.kind = "ApiError" /\ o.status = 404
           THEN [pg EXCEPT !.plan = NoPlan, !.isLoading = FALSE]
         ELSE [pg EXCEPT !.error =
                           CaughtMessage(tree, o, "Failed to load training plan"),
                         !.isLoading = FALSE]
    ELSE IF o.ok
           THEN [pg EXCEPT !.plan = o.data, !.isLoading = FALSE]
         ELSE [pg EXCEPT !.isLoading = FALSE]

\* generatePlan / handleGeneratePlan up to its await.
GeneratePlanStart(pg) == [pg EXCEPT !.isGenerating = TRUE, !.error = NoError]

\* The regenerate flag the click sends: tree A's two buttons pass a literal,
\* tree B passes plan !== null.
RegenerateFlag(tree, pg) == pg.plan # NoPlan

\* Faulty variant: the busy flag is cleared on the success path only.
GeneratePlanSettleNoFinally(tree, pg, o) ==
  IF o.ok THEN [pg EXCEPT !.plan = o.data, !.isGenerating = FALSE]
  ELSE [pg EXCEPT !.error =
                    CaughtMessage(tree, o, "Failed to generate training plan")]

\* generatePlan / handleGeneratePlan once its request has settled.
GeneratePlanSettle(tree, pg, o) ==
  IF o.ok THEN [pg EXCEPT !.plan = o.data, !.isGenerating = FALSE]
  ELSE [pg EXCEPT !.error =
                    CaughtMessage(tree, o, "Failed to generate training plan"),
                  !.isGenerating = FALSE]

\* What the plan page shows: body is the main region ("spinner", "error" the
\* full-page ErrorMessage with its retry button, "cta" the empty state with
\* the generate button, "plan"), banner whether an error message is shown.
PlanView(tree, pg) ==
  IF pg.isLoading THEN [body |-> "spinner", banner |-> FALSE]
  ELSE IF tree = "A"
    THEN IF pg.error # NoError /\ pg.plan = NoPlan
           THEN [body |-> "error", banner |-> TRUE]
         ELSE IF pg.plan = NoPlan THEN [body |-> "cta", banner |-> FALSE]
         ELSE [body |-> "plan", banner |-> pg.error # NoError]
    ELSE [body |-> IF pg.plan = NoPlan THEN "cta" ELSE "plan",
          banner |-> pg.error # NoError]

PageRequest(id, op, ep, resp, flag) ==
  [id |-> id, op |-> op, ep |-> ep, resp |-> resp, flag |-> flag]

\* A signed-in user with a profile has the page open under a granting guard.
InitPage(configs, user, pg) ==
  /\ cfg \in configs
  /\ srv = user
  /\ srvHist = {srv}
  /\ cookie = (IF cfg.tree = "B" THEN "tok" ELSE "none")
  /\ session = Session(user, FALSE, TRUE, NoError)
  /\ isRedirecting = FALSE
  /\ mounted = FALSE
  /\ inflight = {}
  /\ issued = 1
  /\ settled = {[seq |-> 1, user |-> user, fetched |-> TRUE]}
  /\ applied = 1
  /\ calls = 0
  /\ nav = <<>>
  /\ renderLog = <<"spinner", PageGuardRender(cfg, session, FALSE)>>
  /\ deps = GuardDeps(cfg, session)
  /\ ev = Event("init", "none", 0, NoResp, NoOutcome, cookie)
  /\ page = pg
  /\ pending = {}

\* The configurations of the pages that require a profile.
ProfilePageConfigs == {c \in Configs : c.requireProfile /\ c.guard # "latch"}

InitPlan == InitPage(ProfilePageConfigs, "profile", PlanPageInit) /\ env = Env(0, 0, 0)

\* What a page step leaves alone.
PageStepUnchanged ==
  UNCHANGED <<cfg, srv, srvHist, session, isRedirecting, inflight, issued,
              settled, applied, renderLog, deps, env>>

\* The page sends a request whose answer is resp.
IssuePageRequest(op, ep, resp, flag) ==
  /\ calls' = calls + 1
  /\ pending' = pending \cup {PageRequest(calls + 1, op, ep, resp, flag)}
  /\ ev' = Event(op, ep, calls + 1, NoResp, NoOutcome, cookie)
  /\ UNCHANGED <<nav, cookie>>

\* The answer to request r has been consumed by the client with outcome o.
ConsumePageRequest(r, o) ==
  /\ pending' = pending \ {r}
  /\ nav' = nav \o ApiNavs(o)
  /\ cookie' = IF o.clearToken THEN "none" ELSE cookie
  /\ ev' = Event(r.op \o "Settled", r.ep, r.id, r.resp, o, cookie)
  /\ UNCHANGED <<calls, mounted>>

\* The mount effect: fetchPlan().
PlanMount ==
  /\ page.name = "plan" /\ ~mounted
  /\ calls < MaxPageCalls
  /\ mounted' = TRUE
  /\ \E resp \in PlanResponses :
       IssuePageRequest("fetchPlan", "getTrainingPlan", resp, FALSE)
  /\ UNCHANGED page
  /\ PageStepUnchanged

\* The retry button of tree A's full-page error: onRetry={fetchPlan}.
PlanRetry ==
  /\ page.name = "plan" /\ mounted /\ cfg.tree = "A"
  /\ calls < MaxPageCalls
  /\ PlanView(cfg.tree, page).body = "error"
  /\ \E resp \in PlanResponses :
       IssuePageRequest("fetchPlan", "getTrainingPlan", resp, FALSE)
  /\ UNCHANGED <<page, mounted>>
  /\ PageStepUnchanged

\* A click on a generate / regenerate button that is shown and enabled.
PlanGenerate ==
  /\ page.name = "plan" /\ mounted
  /\ ~page.isGenerating
  /\ calls < MaxPageCalls
  /\ PlanView(cfg.tree, page).body \in {"cta", "plan"}
  /\ \E resp \in PlanResponses :
       IssuePageRequest("generate", "generateTrainingPlan", resp,
                        RegenerateFlag(cfg.tree, page))
  /\ page' = GeneratePlanStart(page)
  /\ UNCHANGED mounted
  /\ PageStepUnchanged

\* The answer to a plan fetch arrives.
PlanFetchSettle ==
  /\ page.name = "plan"
  /\ \E r \in pending :
       /\ r.op = "fetchPlan"
       /\ LET o == ClientCall(cfg.tree, r.ep, r.resp)
          IN /\ page' = FetchPlanSettle(cfg.tree, page, o)
             /\ ConsumePageRequest(r, o)
  /\ PageStepUnchanged

\* The answer to a generate request arrives.
PlanGenerateSettle ==
  /\ page.name = "plan"
  /\ \E r \in pending :
       /\ r.op = "generate"
       /\ LET o == ClientCall(cfg.tree, r.ep, r.resp)
          IN /\ page' = GeneratePlanSettle(cfg.tree, page, o)
             /\ ConsumePageRequest(r, o)
  /\ PageStepUnchanged

NextPlan ==
  PlanMount \/ PlanRetry \/ PlanGenerate \/ PlanFetchSettle \/ PlanGenerateSettle

SpecPlan == InitPlan /\ [][NextPlan]_vars

\* C6: a plan fetch that failed with status 404 leaves the page in the empty
\* state with the generate call-to-action and no error banner, and a plan
\* fetch that failed with any other error status leaves it showing the error
\* banner.
C6_PlanFetchFailureView ==
  (ev.op = "fetchPlanSettled" /\ ev.resp.status >= 400) =>
    IF ev.resp.status = 404
      THEN PlanView(cfg.tree, page) = [body |-> "cta", banner |-> FALSE]
      ELSE PlanView(cfg.tree, page).banner

----------------------------------------------------------------------------
(* Dates as the pages compute them.  Instants are hours since 00:00 UTC of  *)
(* day 0; a calendar date is a day number.                                  *)

TzOffsets == {0 - 8, 0, 9}

\* The instant of the clock reading e, and its calendar date in UTC.
UtcNow(e) == e.day * 24 + e.hour - e.tz
UtcDay(e) == UtcNow(e) \div 24

\* today.setHours(0, 0, 0, 0): the instant of local midnight.
LocalMidnight(e) == e.day * 24 - e.tz

\* new Date("YYYY-MM-DD"): a date-only string is midnight UTC of that date.
NewDateOfDateOnly(d) == d * 24

\* parseISO("YYYY-MM-DD") of date-fns, and new Date("YYYY-MM-DDT00:00:00"):
\* midnight local time of that date.
LocalDateInstant(d, e) == d * 24 - e.tz

\* minDate.setDate(minDate.getDate() + n); minDate.toISOString().split("T")[0]
MinDateStr(e, n) == (UtcNow(e) + n * 24) \div 24

----------------------------------------------------------------------------
(* The onboarding form: part_005 Onboarding (tree A), part_002              *)
(* OnboardingForm (tree B)                                                  *)

NoDate == 0 - 1     \* the date input left empty

\* The goal-time fields: tree A has hours and minutes inputs, tree B one
\* H:MM:SS text input.
Goal(h, m, sec) == [h |-> h, m |-> m, s |-> sec]

GoalInputs(tree) ==
  IF tree = "A" THEN {Goal(h, m, 0) : h \in {1, 2, 4, 8}, m \in {0, 30}}
  ELSE {Goal(h, m, sec) : h \in {1, 2, 7, 8}, m \in {0}, sec \in {0, 29, 30}}

RaceDateInputs(e) == {NoDate, e.day - 1, e.day, e.day + 1, e.day + 14}

\* parseTimeToMinutes of a three-part string: Math.round(s / 60) rounds
\* halves up.
ParseTimeToMinutes(g) == g.h * 60 + g.m + (2 * g.s + 60) \div 120

\* The goal_time_minutes the handler computes from the fields.
GoalTimeMinutes(tree, g) ==
  IF tree = "A" THEN g.h * 60 + g.m ELSE ParseTimeToMinutes(g)

OnboardingInit(tree) ==
  [name |-> "onboarding", goal |-> Goal(4, 0, 0), raceDate |-> NoDate,
   isSubmitting |-> FALSE, error |-> NoError]

\* The browser's constraint validation, which precedes the submit event:
\* required, min and max of the inputs (tree B's pattern admits every
\* H:MM:SS of GoalInputs).
FormValid(tree, pg, e) ==
  /\ pg.raceDate # NoDate
  /\ pg.raceDate >= MinDateStr(e, IF tree = "A" THEN 14 ELSE 1)
  /\ tree = "A" => (pg.goal.h >= 2 /\ pg.goal.h <= 8 /\ pg.goal.m >= 0 /\ pg.goal.m <= 59)

\* The checks handleSubmit makes before its first request: the message it
\* throws, NoError when it goes on.  Tree A makes none.
SubmitRejection(tree, pg, e) ==
  IF tree = "A" THEN NoError
  ELSE IF ParseTimeToMinutes(pg.goal) < 120 \/ ParseTimeToMinutes(pg.goal) > 420
    THEN "Goal time should be between 2:00:00 and 7:00:00"
  ELSE IF NewDateOfDateOnly(pg.raceDate) <= LocalMidnight(e)
    THEN "Race date must be in the future"
  ELSE NoError

\* The state the catch / finally blocks leave after the failure o.
SubmitFailed(tree, pg, o) ==
  [pg EXCEPT !.isSubmitting = FALSE,
             !.error = CaughtMessage(tree, o,
                                     "Something went wrong. Please try again.")]

OnboardingConfigs ==
  {[tree |-> "A", guard |-> "inline", requireProfile |-> FALSE],
   [tree |-> "B", guard |-> "src", requireProfile |-> FALSE]}

\* The answers POST /api/profile and POST /api/training-plan/generate can
\* come back with.
WriteResponses ==
  {Resp(200, "data", NoUser), Resp(401, "detail", NoUser),
   Resp(422, "detail", NoUser)} \cup FaultResponses

InitOnboarding ==
  /\ InitPage(OnboardingConfigs, "noprofile", OnboardingInit(cfg.tree))
  /\ env \in {Env(tz, 10, h) : tz \in TzOffsets, h \in {3, 15}}

\* The user fills in the goal time and the race date.
OnbEdit ==
  /\ page.name = "onboarding"
  /\ ~page.isSubmitting
  /\ calls < MaxPageCalls
  /\ \E g \in GoalInputs(cfg.tree), d \in RaceDateInputs(env) :
       /\ <<g, d>> # <<page.goal, page.raceDate>>
       /\ page' = [page EXCEPT !.goal = g, !.raceDate = d]
  /\ ev' = Event("edit", "none", 0, NoResp, NoOutcome, cookie)
  /\ UNCHANGED <<cookie, mounted, calls, nav, pending>>
  /\ PageStepUnchanged

\* handleSubmit up to its first await: the checks, then POST /api/profile.
OnbSubmit ==
  /\ page.name = "onboarding"
  /\ ~page.isSubmitting
  /\ calls < MaxPageCalls
  /\ FormValid(cfg.tree, page, env)
  /\ LET rej == SubmitRejection(cfg.tree, page, env)
     IN \/ /\ rej # NoError
           /\ page' = [page EXCEPT !.error = rej, !.isSubmitting = FALSE]
           /\ ev' = Event("submit", "none", 0, NoResp, NoOutcome, cookie)
           /\ UNCHANGED <<calls, pending, nav, cookie>>
        \/ /\ rej = NoError
           /\ page' = [page EXCEPT !.error = NoError, !.isSubmitting = TRUE]
           /\ \E resp \in WriteResponses :
                IssuePageRequest("submit", "createProfile", resp,
                                 GoalTimeMinutes(cfg.tree, page.goal))
  /\ UNCHANGED mounted
  /\ PageStepUnchanged

\* A request of the form failed: the catch block.
OnbFail(r, o) ==
  /\ ~o.ok
  /\ page' = SubmitFailed(cfg.tree, page, o)
  /\ ConsumePageRequest(r, o)
  /\ PageStepUnchanged

\* POST /api/profile has answered; on success tree A goes on to generate the
\* plan, tree B awaits refreshUser().
OnbCreateSettle ==
  /\ page.name = "onboarding"
  /\ \E r \in pending :
       /\ r.ep = "createProfile"
       /\ LET o == ClientCall(cfg.tree, r.ep, r.resp)
              done == Event("submitSettled", r.ep, r.id, r.resp, o, cookie)
          IN \/ OnbFail(r, o)
             \/ /\ o.ok /\ cfg.tree = "A"
                /\ \E resp \in WriteResponses :
                     pending' = (pending \ {r}) \cup
                       {PageRequest(calls + 1, "generate", "generateTrainingPlan",
                                    resp, FALSE)}
                /\ calls' = calls + 1
                /\ ev' = done
                /\ srv' = "profile" /\ srvHist' = srvHist \cup {"profile"}
                /\ UNCHANGED <<page, nav, cookie, session, isRedirecting,
                               inflight, issued, settled, applied, renderLog,
                               deps>>
             \/ /\ o.ok /\ cfg.tree = "B" /\ cookie # "none"
                /\ \E resp \in {MeResponse("profile")} \cup FaultResponses :
                     IssueFetch(resp, "onboarding")
                /\ Commit(session, nav)
                /\ pending' = pending \ {r}
                /\ ev' = done
                /\ srv' = "profile" /\ srvHist' = srvHist \cup {"profile"}
                /\ UNCHANGED <<page, calls, cookie>>
             \/ /\ o.ok /\ cfg.tree = "B" /\ cookie = "none"
                /\ SettleAtOnce
                /\ Commit(RefreshUserNoToken(session),
                          nav \o AfterRefreshNavs("onboarding"))
                /\ page' = AfterRefreshPage("onboarding", page)
                /\ pending' = pending \ {r}
                /\ ev' = done
                /\ srv' = "profile" /\ srvHist' = srvHist \cup {"profile"}
                /\ UNCHANGED <<calls, cookie>>
  /\ UNCHANGED <<cfg, mounted, env>>

\* Tree A: POST /api/training-plan/generate has answered; on success the
\* handler calls refresh() without awaiting it and pushes "/dashboard".
OnbGenerateSettle ==
  /\ page.name = "onboarding"
  /\ \E r \in pending :
       /\ r.ep = "generateTrainingPlan"
       /\ LET o == ClientCall(cfg.tree, r.ep, r.resp)
          IN \/ OnbFail(r, o)
             \/ /\ o.ok
                /\ \E resp \in MeResponses : IssueFetch(resp, "fetchUser")
                /\ Commit(RefreshStart(session),
                          Append(nav, <<"page", "/dashboard">>))
                /\ pending' = pending \ {r}
                /\ ev' = Event("generateSettled", r.ep, r.id, r.resp, o, cookie)
                /\ UNCHANGED <<page, calls, cookie, srv, srvHist>>
  /\ UNCHANGED <<cfg, mounted, env>>

NextOnboarding ==
  OnbEdit \/ OnbSubmit \/ OnbCreateSettle \/ OnbGenerateSettle \/ Deliver

SpecOnboarding == InitOnboarding /\ [][NextOnboarding]_vars

\* C7: a submission whose goal time is outside [120, 420] minutes, or whose
\* race date is not strictly after today, ends with an error shown and with
\* no request issued for it.
C7_InvalidSubmissionRejected ==
  (/\ page.name = "onboarding"
   /\ ev.op = "submit"
   /\ \/ GoalTimeMinutes(cfg.tree, page.goal) < 120
      \/ GoalTimeMinutes(cfg.tree, page.goal) > 420
      \/ page.raceDate <= env.day)
    => (page.error # NoError /\ ev.ep = "none" /\ pending = {})

----------------------------------------------------------------------------
(* Current-week selection: getCurrentWeek of tree B's dashboard,            *)
(* isCurrentWeek of tree B's plan page, the find of tree A's dashboard      *)

NumWeeks == 3       \* weeks of the plan

NoWeek == 0         \* no week: null

Min(S) == CHOOSE x \in S : \A y \in S : x <= y

\* A week of the plan; end_date is the last day of its 7-day window.
Week(n, start) ==
  [week_number |-> n, start_date |-> start, end_date |-> start + 6]

\* A plan of consecutive weeks, the first starting on day first.
PlanWeeks(first) == [k \in 1..NumWeeks |-> Week(k, first + 7 * (k - 1))]

\* How the plan writes its dates: "date" is YYYY-MM-DD, "datetime" is
\* YYYY-MM-DDT00:00:00 without a zone.
DateFormats == {"date", "datetime"}

\* new Date(week.start_date)
NewDate(fmt, d, e) ==
  IF fmt = "date" THEN NewDateOfDateOnly(d) ELSE LocalDateInstant(d, e)

\* Tree B: today >= weekStart && today < weekEnd, weekEnd seven days later.
IsCurrentWeek(week, fmt, e) ==
  LET today == LocalMidnight(e)
      weekStart == NewDate(fmt, week.start_date, e)
      weekEnd == weekStart + 7 * 24
  IN today >= weekStart /\ today < weekEnd

\* Tree B: the first week of the plan that matches, else the first week.
GetCurrentWeek(weeks, fmt, e) ==
  LET m == {k \in 1..Len(weeks) : IsCurrentWeek(weeks[k], fmt, e)}
  IN IF m # {} THEN weeks[Min(m)].week_number
     ELSE IF Len(weeks) > 0 THEN weeks[1].week_number
     ELSE NoWeek

\* Tree A: isWithinInterval(today, {start, end}) of date-fns, both ends
\* included, with today the current instant and the ends parsed by parseISO.
IsWithinInterval(t, start, end) == t >= start /\ t <= end

FindCurrentWeek(weeks, e) ==
  LET m == {k \in 1..Len(weeks) :
              IsWithinInterval(UtcNow(e),
                               LocalDateInstant(weeks[k].start_date, e),
                               LocalDateInstant(weeks[k].end_date, e))}
  IN IF m # {} THEN weeks[Min(m)].week_number ELSE weeks[1].week_number

CurrentWeek(tree, weeks, fmt, e) ==
  IF tree = "A" THEN FindCurrentWeek(weeks, e) ELSE GetCurrentWeek(weeks, fmt, e)

\* The dashboard with its plan loaded; currentWeek is the week it shows and
\* asOf the clock reading it was computed at (NoWeek and the mount's reading
\* before the first computation).
DashboardInit(first, fmt, e) ==
  [name |-> "dashboard", weeks |-> PlanWeeks(first), fmt |-> fmt,
   currentWeek |-> NoWeek, asOf |-> e]

LocalHours == {0, 12}

InitWeek ==
  /\ env \in {Env(tz, 13, h) : tz \in TzOffsets, h \in LocalHours}
  /\ \E fmt \in DateFormats :
       InitPage(ProfilePageConfigs, "profile", DashboardInit(14, fmt, env))

\* Time passes: the next reading of the clock.
ClockTick ==
  /\ page.name = "dashboard"
  /\ env.day <= page.weeks[NumWeeks].start_date + 7
  /\ env' = IF env.hour = 0 THEN [env EXCEPT !.hour = 12]
            ELSE [env EXCEPT !.day = env.day + 1, !.hour = 0]
  /\ UNCHANGED <<authVars, page, pending>>

\* The dashboard computes the week to show.
SelectCurrentWeek ==
  /\ page.name = "dashboard"
  /\ page' = [page EXCEPT
                !.currentWeek = CurrentWeek(cfg.tree, page.weeks, page.fmt, env),
                !.asOf = env]
  /\ ev' = Event("selectWeek", "none", 0, NoResp, NoOutcome, cookie)
  /\ UNCHANGED <<cookie, mounted, calls, nav, pending>>
  /\ PageStepUnchanged

NextWeek == ClockTick \/ SelectCurrentWeek

SpecWeek == InitWeek /\ [][NextWeek]_vars

\* C8: computed on a week's start_date the current week is that week, and
\* computed seven days after a week's start_date it is the following week,
\* not the week that started seven days earlier.
C8_WeekBoundaries ==
  (page.name = "dashboard" /\ page.currentWeek # NoWeek) =>
    \A k \in 1..NumWeeks :
      /\ page.asOf.day = page.weeks[k].start_date
           => page.currentWeek = page.weeks[k].week_number
      /\ (k < NumWeeks /\ page.asOf.day = page.weeks[k].start_date + 7)
           => page.currentWeek = page.weeks[k + 1].week_number

----------------------------------------------------------------------------
(* The runs page: part_005 RunsPage (tree A), frontend/src/app/runs         *)
(* RunsContent (tree B)                                                     *)

MaxRuns == 2        \* runs in a fetched list

Run(meters, seconds, start) ==
  [distance_meters |-> meters, moving_time_seconds |-> seconds,
   start_date |-> start]

\* start_date of a run is an instant (hours since 00:00 UTC of day 0).
RunValues == {Run(5000, 1505, 223), Run(21097, 7384, 55)}

RunLists == UNION {[1..n -> RunValues] : n \in 0..MaxRuns}

RECURSIVE TotalDistance(_)
\* runs.reduce((sum, run) => sum + run.distance_meters, 0)
TotalDistance(runs) ==
  IF runs = <<>> THEN 0
  ELSE Head(runs).distance_meters + TotalDistance(Tail(runs))

RECURSIVE TotalTime(_)
\* runs.reduce((sum, run) => sum + run.moving_time_seconds, 0)
TotalTime(runs) ==
  IF runs = <<>> THEN 0
  ELSE Head(runs).moving_time_seconds + TotalTime(Tail(runs))

\* Tree B: the runs that started at or after midnight of the most recent
\* Sunday (day numbers that are multiples of 7 are Sundays).
ThisWeekRuns(runs, e) ==
  LET weekStart == (e.day - (e.day % 7)) * 24 - e.tz
  IN SelectSeq(runs, LAMBDA run : run.start_date >= weekStart)

\* A number printed with two decimals, as toFixed(2) prints it.
Fixed2(hundredths, unit) ==
  [whole |-> hundredths \div 100, frac |-> hundredths % 100, unit |-> unit]

\* formatDistance: kilometres in tree B, miles in tree A (1609.344 m to the
\* mile: 100 / 1609.344 = 3125 / 50292), rounded to the nearest hundredth.
FormatDistance(tree, meters) ==
  IF tree = "A"
    THEN Fixed2((meters * 6250 + 50292) \div (2 * 50292), "mi")
    ELSE Fixed2((meters + 5) \div 10, "km")

\* Faulty variant: the hours are always printed.
FormatDurationAlwaysHours(seconds) ==
  [showHours |-> TRUE, hours |-> seconds \div 3600,
   minutes |-> (seconds % 3600) \div 60, secs |-> seconds % 60]

\* formatDuration / formatTime: H:MM:SS when there are hours, else M:SS.
FormatDuration(seconds) ==
  [showHours |-> seconds \div 3600 > 0, hours |-> seconds \div 3600,
   minutes |-> (seconds % 3600) \div 60, secs |-> seconds % 60]

\* The aggregate statistics the page computes from the list it holds.
Stats(tree, runs, e) ==
  IF tree = "A"
    THEN [count |-> Len(runs),
          distance |-> FormatDistance(tree, TotalDistance(runs)),
          time |-> FormatDuration(TotalTime(runs))]
    ELSE [distance |-> FormatDistance(tree, TotalDistance(runs)),
          time |-> FormatDuration(TotalTime(runs)),
          thisWeek |-> FormatDistance(tree, TotalDistance(ThisWeekRuns(runs, e)))]

NoStats == [shown |-> FALSE]

\* What the runs page shows: body is the list region ("spinner", "empty" the
\* No Runs Yet state, "list"), stats the statistics cards (NoStats when they
\* are not rendered), banner whether the error is shown.
RunsView(tree, pg, e) ==
  IF tree = "A"
    THEN [body |-> IF pg.isLoading THEN "spinner"
                   ELSE IF Len(pg.runs) = 0 THEN "empty" ELSE "list",
          stats |-> IF ~pg.isLoading /\ Len(pg.runs) > 0
                      THEN Stats(tree, pg.runs, e) ELSE NoStats,
          banner |-> pg.error # NoError]
    ELSE IF pg.isLoading
      THEN [body |-> "spinner", stats |-> NoStats, banner |-> FALSE]
    ELSE [body |-> IF Len(pg.runs) > 0 THEN "list" ELSE "empty",
          stats |-> Stats(tree, pg.runs, e),
          banner |-> pg.error # NoError]

RunsPageInit ==
  [name |-> "runs", runs |-> <<>>, total |-> 0, isLoading |-> TRUE,
   isSyncing |-> FALSE, error |-> NoError, syncMessage |-> NoError]

\* Faulty variant: the fetched runs are appended to the list already shown.
FetchRunsSettleMerging(tree, pg, o) ==
  IF o.ok
    THEN [pg EXCEPT !.runs = pg.runs \o o.data,
                    !.total = Len(pg.runs) + Len(o.data), !.isLoading = FALSE,
                    !.error = IF tree = "A" THEN NoError ELSE pg.error]
    ELSE [pg EXCEPT !.error = CaughtMessage(tree, o, "Failed to load runs"),
                    !.isLoading = FALSE]

\* fetchRuns once its request has settled; tree A clears the error on
\* success, tree B leaves it.
FetchRunsSettle(tree, pg, o) ==
  IF o.ok
    THEN [pg EXCEPT !.runs = o.data, !.total = Len(o.data), !.isLoading = FALSE,
                    !.error = IF tree = "A" THEN NoError ELSE pg.error]
    ELSE [pg EXCEPT !.error = CaughtMessage(tree, o, "Failed to load runs"),
                    !.isLoading = FALSE]

\* syncRuns / handleSync up to its await.
SyncStart(pg) ==
  [pg EXCEPT !.isSyncing = TRUE, !.error = NoError, !.syncMessage = NoError]

\* The answers GET /api/runs can come back with.
RunsResponses ==
  {Resp(200, "data", l) : l \in RunLists}
    \cup {Resp(r.status, r.body, <<>>) :
            r \in {Resp(401, "detail", <<>>), Resp(500, "detail", <<>>)}
                    \cup FaultResponses}

\* The answers POST /api/runs/sync can come back with.
SyncResponses == {Resp(r.status, r.body, <<>>) : r \in WriteResponses}

InitRuns ==
  /\ InitPage(ProfilePageConfigs, "profile", RunsPageInit)
  /\ env \in {Env(tz, 10, 12) : tz \in TzOffsets}

\* The mount effect: fetchRuns().
RunsMount ==
  /\ page.name = "runs" /\ ~mounted
  /\ mounted' = TRUE
  /\ \E resp \in RunsResponses : IssuePageRequest("fetchRuns", "getRuns", resp, FALSE)
  /\ UNCHANGED page
  /\ PageStepUnchanged

\* Tree A's retry button on the error message: onRetry={fetchRuns}.
RunsRetry ==
  /\ page.name = "runs" /\ mounted /\ cfg.tree = "A"
  /\ calls < MaxPageCalls
  /\ RunsView(cfg.tree, page, env).banner
  /\ \E resp \in RunsResponses : IssuePageRequest("fetchRuns", "getRuns", resp, FALSE)
  /\ UNCHANGED <<page, mounted>>
  /\ PageStepUnchanged

\* A click on an enabled Sync from Strava button.
RunsSync ==
  /\ page.name = "runs" /\ mounted
  /\ calls < MaxPageCalls
  /\ ~page.isSyncing
  /\ cfg.tree = "B" => ~page.isLoading
  /\ \E resp \in SyncResponses : IssuePageRequest("sync", "syncRuns", resp, FALSE)
  /\ page' = SyncStart(page)
  /\ UNCHANGED mounted
  /\ PageStepUnchanged

\* POST /api/runs/sync has answered: on success the handler stores the message
\* and awaits fetchRuns(); on failure it stores the error and ends.
RunsSyncSettle ==
  /\ page.name = "runs"
  /\ \E r \in pending :
       /\ r.op = "sync"
       /\ LET o == ClientCall(cfg.tree, r.ep, r.resp)
          IN \/ /\ ~o.ok
                /\ page' = [page EXCEPT
                              !.error = CaughtMessage(cfg.tree, o,
                                                      "Failed to sync runs"),
                              !.isSyncing = FALSE]
                /\ ConsumePageRequest(r, o)
             \/ /\ o.ok
                /\ page' = [page EXCEPT !.syncMessage = "message"]
                /\ \E resp \in RunsResponses :
                     pending' = (pending \ {r}) \cup
                       {PageRequest(calls + 1, "fetchRuns", "getRuns", resp, TRUE)}
                /\ calls' = calls + 1
                /\ ev' = Event("syncSettled", r.ep, r.id, r.resp, o, cookie)
                /\ UNCHANGED <<nav, cookie, mounted>>
  /\ PageStepUnchanged

\* The answer to a run-list fetch arrives; the sync handler that awaited it
\* (flag) then clears its busy flag.
RunsFetchSettle ==
  /\ page.name = "runs"
  /\ \E r \in pending :
       /\ r.op = "fetchRuns"
       /\ LET o == ClientCall(cfg.tree, r.ep, r.resp)
              pg == FetchRunsSettle(cfg.tree, page, o)
          IN /\ page' = IF r.flag THEN [pg EXCEPT !.isSyncing = FALSE] ELSE pg
             /\ ConsumePageRequest(r, o)
  /\ PageStepUnchanged

NextRuns == RunsMount \/ RunsRetry \/ RunsSync \/ RunsSyncSettle \/ RunsFetchSettle

SpecRuns == InitRuns /\ [][NextRuns]_vars

\* The statistics of no runs as the page prints them: 0.00 and 0:00.
ZeroStats(tree) ==
  IF tree = "A"
    THEN [count |-> 0, distance |-> Fixed2(0, "mi"),
          time |-> [showHours |-> FALSE, hours |-> 0, minutes |-> 0, secs |-> 0]]
    ELSE [distance |-> Fixed2(0, "km"),
          time |-> [showHours |-> FALSE, hours |-> 0, minutes |-> 0, secs |-> 0],
          thisWeek |-> Fixed2(0, "km")]

\* A run-list fetch has just succeeded with an empty list.
FetchedNoRuns ==
  /\ page.name = "runs"
  /\ ev.op = "fetchRunsSettled" /\ ev.o.ok /\ ev.o.data = <<>>

\* C9 as stated: when the fetched run list is empty the page renders its
\* aggregate statistics as zero values and shows no error.
C9_ZeroRunsRenderZeroStats ==
  FetchedNoRuns =>
    /\ RunsView(cfg.tree, page, env).stats = ZeroStats(cfg.tree)
    /\ ~RunsView(cfg.tree, page, env).banner

\* C9 amended: when the fetched run list is empty the aggregate statistics
\* evaluate to zero values and the page shows no error; tree B renders the
\* zero-valued cards, tree A renders no statistics cards and shows its
\* No Runs Yet state instead.
C9_ZeroRunsZeroStatsNoError ==
  FetchedNoRuns =>
    /\ Stats(cfg.tree, page.runs, env) = ZeroStats(cfg.tree)
    /\ ~RunsView(cfg.tree, page, env).banner
    /\ RunsView(cfg.tree, page, env).body = "empty"
    /\ RunsView(cfg.tree, page, env).stats =
         (IF cfg.tree = "A" THEN NoStats ELSE ZeroStats(cfg.tree))

\* Reached: tree A after a sync whose re-fetch returned no runs, following a
\* failed first fetch.
C9_Witness ==
  /\ FetchedNoRuns /\ cfg.tree = "A"
  /\ page.syncMessage = "message" /\ ~page.isSyncing /\ calls = 3
  /\ RunsView(cfg.tree, page, env).stats = NoStats

----------------------------------------------------------------------------
(* Further claims about the session provider *)

\* The GET /auth/me requests sent so far: those in flight and those answered.
GetMeRequests(inf, done) ==
  Cardinality(inf) + Cardinality({f \in done : f.fetched})

\* The step is the mount effect or a refresh() invocation.
ResolutionStarts == ev' # ev /\ ev'.op \in {"mount", "refresh"}

\* C11 as stated: the mount effect and every refresh invocation send exactly
\* one GET /auth/me, and no other step sends one: in particular the arrival
\* of a failed answer sends none.
C11_OneRequestPerResolution ==
  [][GetMeRequests(inflight', settled') =
       GetMeRequests(inflight, settled) + (IF ResolutionStarts THEN 1 ELSE 0)]_vars

\* C11 amended: the same, except that the token-based provider of tree B
\* sends no request for a mount or a refreshUser() that finds no token cookie;
\* it resolves to signed-out at once.
C11_OneRequestPerResolutionWithToken ==
  [][GetMeRequests(inflight', settled') =
       GetMeRequests(inflight, settled) +
         (IF ResolutionStarts /\ ~(cfg.tree = "B" /\ cookie = "none")
            THEN 1 ELSE 0)]_vars

\* Reached: the mount's fetch and one refresh() have both failed, and nothing
\* is on the wire.
C11_Witness ==
  /\ cfg.tree = "A" /\ issued = 2 /\ inflight = {}
  /\ Cardinality(settled) = 2
  /\ \A f \in settled : f.user = NoUser
  /\ ev.op = "deliver" /\ ~ev.o.ok

----------------------------------------------------------------------------
(* The provider's logout, with the page load around it *)

\* The answers POST /auth/logout can come back with.
LogoutResponses ==
  {Resp(200, "data", NoUser), Resp(401, "detail", NoUser)} \cup FaultResponses

\* Tree A, logout once authApi.logout() has settled: the state is replaced
\* after a success; the catch block only logs.
LogoutSettleState(s, o) ==
  IF o.ok THEN Session(NoUser, FALSE, FALSE, NoError) ELSE s

\* Tree A: window.location.href = '/' follows the state update in the try
\* block.
LogoutSettleNavs(o) == IF o.ok THEN << <<"auth", "/">> >> ELSE <<>>

\* Tree B, logout: Cookies.remove, setUser(null), window.location.href = "/".
LogoutLocal(s) == [s EXCEPT !.user = NoUser]

\* logout() is invoked: tree A sends POST /auth/logout and awaits it, tree B
\* finishes at once.
Logout ==
  /\ mounted
  /\ calls < MaxCalls
  /\ calls' = calls + 1
  /\ \/ /\ cfg.tree = "A"
        /\ \E resp \in LogoutResponses :
             pending' = pending \cup
               {PageRequest(calls + 1, "logout", "logout", resp, FALSE)}
        /\ ev' = Event("logout", "logout", calls + 1, NoResp, NoOutcome, cookie)
        /\ UNCHANGED <<cookie, session, isRedirecting, nav, renderLog, deps>>
     \/ /\ cfg.tree = "B"
        /\ cookie' = "none"
        /\ Commit(LogoutLocal(session), Append(nav, <<"auth", "/">>))
        /\ ev' = Event("logoutSettled", "none", calls + 1, NoResp, NoOutcome,
                       cookie)
        /\ UNCHANGED pending
  /\ UNCHANGED <<cfg, srv, srvHist, mounted, inflight, issued, settled, applied,
                 page, env>>

\* Tree A: the answer to POST /auth/logout arrives. A 200 ends the backend
\* session.
LogoutSettle ==
  /\ \E r \in pending :
       /\ r.op = "logout"
       /\ LET o == ClientCall(cfg.tree, r.ep, r.resp)
          IN /\ Commit(LogoutSettleState(session, o),
                       nav \o ApiNavs(o) \o LogoutSettleNavs(o))
             /\ pending' = pending \ {r}
             /\ srv' = IF o.ok THEN "none" ELSE srv
             /\ srvHist' = IF o.ok THEN srvHist \cup {"none"} ELSE srvHist
             /\ ev' = Event("logoutSettled", r.ep, r.id, r.resp, o, cookie)
  /\ UNCHANGED <<cfg, cookie, mounted, inflight, issued, settled, applied, calls,
                 page, env>>

NextSession == Mount \/ Deliver \/ Logout \/ LogoutSettle

SpecSession == Init /\ [][NextSession]_vars

\* The full-page navigations to "/" that logout() has issued.
LogoutNavs == Cardinality({i \in 1..Len(nav) : nav[i] = <<"auth", "/">>})

\* C12: when logout() has run to its end the session holds no user, is not
\* authenticated, and every logout() that has ended issued its full-page
\* navigation to "/", whether or not the backend call succeeded.
C12_LogoutAlwaysClears ==
  ev.op = "logoutSettled" =>
    /\ session.user = NoUser
    /\ cfg.tree = "A" => ~session.isAuthenticated
    /\ LogoutNavs = calls - Cardinality(pending)

----------------------------------------------------------------------------
(* Further claims about the route guard *)

\* C13: once the guard has left PENDING it never returns to it, whatever
\* session operation runs afterwards.
C13_PendingLeftOnce ==
  [][GuardState(cfg, session, isRedirecting) # "PENDING"
       => GuardState(cfg, session', isRedirecting') # "PENDING"]_vars

----------------------------------------------------------------------------
(* The dashboard's data fetch: part_005 Dashboard.fetchData (tree A),       *)
(* frontend/src/app/dashboard DashboardContent.fetchData (tree B)           *)

NoData == "null"

DashboardEndpoints == {"getProfile", "getTrainingPlan", "getRuns"}

\* The payload of a 200 answer of each endpoint.
DashboardData(ep) ==
  CASE ep = "getProfile" -> "profile"
    [] ep = "getTrainingPlan" -> "plan"
    [] OTHER -> "runs"

\* The answers a dashboard request can come back with.
DashboardResponses(ep) ==
  {Resp(200, "data", DashboardData(ep)), Resp(404, "detail", NoData),
   Resp(401, "detail", NoData), Resp(500, "detail", NoData)} \cup FaultResponses

\* useState initial values, with the bookkeeping of the running fetchData:
\* got holds the outcome of each request that has settled, allSettled whether
\* the awaited Promise.all (tree A) has settled, and seen the HTTP status each
\* endpoint answered with (-1 before the answer).
DashboardFetchInit ==
  [name |-> "dashboardFetch", profile |-> NoData, plan |-> NoPlan,
   recentRuns |-> "empty", isLoading |-> TRUE, error |-> NoError,
   got |-> [ep \in DashboardEndpoints |-> "none"],
   allSettled |-> FALSE,
   seen |-> [ep \in DashboardEndpoints |-> 0 - 1]]

\* Tree A: trainingPlanApi.get().catch(() => null) turns every failure of the
\* plan request into a null plan; the other two promises reject.
PromiseResult(ep, o) ==
  IF o.ok THEN o.data
  ELSE IF ep = "getTrainingPlan" THEN NoPlan
  ELSE "rejected"

\* Tree A: the continuation of await Promise.all(...) once request ep has
\* settled with outcome o (HTTP status st). It runs at the first rejection or when all three
\* have fulfilled, and never twice.
FetchDataAll(pg, ep, o, st) ==
  LET got2 == [pg.got EXCEPT ![ep] = PromiseResult(ep, o)]
      pg2 == [pg EXCEPT !.got = got2, !.seen[ep] = st]
  IN IF pg.allSettled THEN pg2
     ELSE IF got2[ep] = "rejected"
       THEN [pg2 EXCEPT !.allSettled = TRUE, !.isLoading = FALSE,
                        !.error = CaughtMessage("A", o,
                                                "Failed to load dashboard data")]
     ELSE IF \A e \in DashboardEndpoints : got2[e] # "none"
       THEN [pg2 EXCEPT !.allSettled = TRUE, !.isLoading = FALSE,
                        !.profile = got2["getProfile"],
                        !.plan = got2["getTrainingPlan"],
                        !.recentRuns = got2["getRuns"]]
     ELSE pg2

\* Tree B: the continuation of the await on request ep: the profile is
\* required, the inner try blocks swallow a failure of the plan and of the
\* runs; the finally runs when the chain ends.
FetchDataChain(pg, ep, o, st) ==
  LET pg2 == [pg EXCEPT !.seen[ep] = st]
  IN CASE ep = "getProfile" ->
            IF o.ok THEN [pg2 EXCEPT !.profile = o.data]
            ELSE [pg2 EXCEPT !.error = CaughtMessage("B", o,
                                                     "Failed to load dashboard"),
                             !.isLoading = FALSE]
       [] ep = "getTrainingPlan" ->
            IF o.ok THEN [pg2 EXCEPT !.plan = o.data] ELSE pg2
       [] OTHER ->
            IF o.ok THEN [pg2 EXCEPT !.recentRuns = o.data, !.isLoading = FALSE]
            ELSE [pg2 EXCEPT !.isLoading = FALSE]

\* Tree B: the request the chain sends after ep has settled, "none" at its end.
NextInChain(ep, o) ==
  CASE ep = "getProfile" -> IF o.ok THEN "getTrainingPlan" ELSE "none"
    [] ep = "getTrainingPlan" -> "getRuns"
    [] OTHER -> "none"

\* What the dashboard shows: body is "spinner", "error" (tree A's full-page
\* ErrorMessage) or "content"; banner whether an error is shown; profile
\* whether the profile cards are shown; plan and runs which of the two
\* renderings of each section is shown.
DashboardView(tree, pg) ==
  IF pg.isLoading
    THEN [body |-> "spinner", banner |-> FALSE, profile |-> FALSE,
          plan |-> "none", runs |-> "none"]
  ELSE IF tree = "A" /\ pg.error # NoError
    THEN [body |-> "error", banner |-> TRUE, profile |-> FALSE,
          plan |-> "none", runs |-> "none"]
  ELSE [body |-> "content", banner |-> pg.error # NoError,
        profile |-> pg.profile # NoData,
        plan |-> IF pg.plan = NoPlan THEN "noplan" ELSE "plan",
        runs |-> IF pg.recentRuns = "empty" THEN "noruns" ELSE "runs"]

InitDashboard ==
  /\ InitPage(ProfilePageConfigs, "profile", DashboardFetchInit)
  /\ env = Env(0, 0, 0)

DashboardRequest(id, ep, resp) == PageRequest(id, "fetchData", ep, resp, FALSE)

\* The mount effect: fetchData(). Tree A sends its three requests together,
\* tree B starts its chain with the profile.
DashboardMount ==
  /\ page.name = "dashboardFetch" /\ ~mounted
  /\ mounted' = TRUE
  /\ \/ /\ cfg.tree = "A"
        /\ \E rp \in DashboardResponses("getProfile"),
              rt \in DashboardResponses("getTrainingPlan"),
              rr \in DashboardResponses("getRuns") :
             pending' = {DashboardRequest(1, "getProfile", rp),
                         DashboardRequest(2, "getTrainingPlan", rt),
                         DashboardRequest(3, "getRuns", rr)}
        /\ calls' = 3
     \/ /\ cfg.tree = "B"
        /\ \E rp \in DashboardResponses("getProfile") :
             pending' = {DashboardRequest(1, "getProfile", rp)}
        /\ calls' = 1
  /\ ev' = Event("fetchData", "getProfile", 1, NoResp, NoOutcome, cookie)
  /\ UNCHANGED <<page, nav, cookie>>
  /\ PageStepUnchanged

\* The answer to one of fetchData's requests arrives and the code awaiting it
\* runs on.
DashboardSettle ==
  /\ page.name = "dashboardFetch"
  /\ \E r \in pending :
       LET o == ClientCall(cfg.tree, r.ep, r.resp)
           next == IF cfg.tree = "B" THEN NextInChain(r.ep, o) ELSE "none"
       IN /\ page' = IF cfg.tree = "A"
                       THEN FetchDataAll(page, r.ep, o, r.resp.status)
                       ELSE FetchDataChain(page, r.ep, o, r.resp.status)
          /\ \/ /\ next = "none"
                /\ pending' = pending \ {r}
                /\ calls' = calls
             \/ /\ next # "none"
                /\ \E resp \in DashboardResponses(next) :
                     pending' = (pending \ {r}) \cup
                                  {DashboardRequest(calls + 1, next, resp)}
                /\ calls' = calls + 1
          /\ nav' = nav \o ApiNavs(o)
          /\ cookie' = IF o.clearToken THEN "none" ELSE cookie
          /\ ev' = Event("fetchDataSettled", r.ep, r.id, r.resp, o, cookie)
  /\ UNCHANGED mounted
  /\ PageStepUnchanged

NextDashboard == DashboardMount \/ DashboardSettle

SpecDashboard == InitDashboard /\ [][NextDashboard]_vars

\* fetchData has run to its end and every request has been answered.
DashboardLoaded ==
  /\ page.name = "dashboardFetch" /\ mounted /\ pending = {} /\ ~page.isLoading

Answered(ep) == page.seen[ep] # 0 - 1
Failed(ep) == Answered(ep) /\ ~(page.seen[ep] >= 200 /\ page.seen[ep] <= 299)
Loaded(ep) == page.seen[ep] >= 200 /\ page.seen[ep] <= 299

\* C14: a failed profile fetch ends in a page-level error; with the profile
\* loaded, a plan fetch that failed with 404 and a runs fetch that failed end
\* in the loaded page with no error, showing "no plan" and "no runs", and the
\* resources that did load are shown.
C14_DashboardTolerance ==
  DashboardLoaded =>
    /\ Failed("getProfile") => DashboardView(cfg.tree, page).banner
    /\ (Loaded("getProfile") /\ page.seen["getTrainingPlan"] = 404
          /\ ~Failed("getRuns")) =>
         /\ DashboardView(cfg.tree, page).body = "content"
         /\ ~DashboardView(cfg.tree, page).banner
         /\ DashboardView(cfg.tree, page).profile
         /\ DashboardView(cfg.tree, page).plan = "noplan"
         /\ Loaded("getRuns") => DashboardView(cfg.tree, page).runs = "runs"
    /\ (Loaded("getProfile") /\ Failed("getRuns")
          /\ page.seen["getTrainingPlan"] \in {200, 404}) =>
         /\ DashboardView(cfg.tree, page).body = "content"
         /\ ~DashboardView(cfg.tree, page).banner
         /\ DashboardView(cfg.tree, page).profile
         /\ DashboardView(cfg.tree, page).runs = "noruns"
         /\ page.seen["getTrainingPlan"] = 200
              => DashboardView(cfg.tree, page).plan = "plan"

----------------------------------------------------------------------------
(* The API client's error contract *)

\* An operation of the API client has just settled on an HTTP response.
CallSettledOnHttp == ev.op = "call" /\ ev.resp.status > 0

\* The message the contract asks for: the body's detail, else a generic one.
GenericMessages == {"Request failed", "Unknown error", "HTTP error! status"}

\* C15: an operation answered with a 2xx JSON body returns that body; one
\* answered with a non-2xx status fails with a typed error whose status is
\* the response's and whose message is the body's detail, or a generic
\* message when the body has no detail or is not JSON.
C15_TypedErrorCarriesStatus ==
  CallSettledOnHttp =>
    /\ (RespOk(ev.resp) /\ ev.resp.body = "data") =>
         (ev.o.ok /\ ev.o.data = ev.resp.data)
    /\ ~RespOk(ev.resp) =>
         /\ ~ev.o.ok
         /\ ev.o.kind = "ApiError"
         /\ ev.o.status = ev.resp.status
         /\ ev.o.message = "detail" <=> ev.resp.body = "detail"
         /\ ev.resp.body # "detail" => ev.o.message \in GenericMessages

----------------------------------------------------------------------------
(* The plan page against a backend that stores the plan.  srv is "plan"     *)
(* when the signed-in user has a stored plan and "profile" when not.        *)

\* What GET /api/training-plan answers for backend state s.
StoredPlanResponses(s) ==
  {IF s = "plan" THEN Resp(200, "data", "plan") ELSE Resp(404, "detail", NoPlan),
   Resp(500, "detail", NoPlan)} \cup FaultResponses

\* What POST /api/training-plan/generate answers for backend state s and the
\* regenerate flag of the body: an existing plan is replaced only on request.
GenerateResponses(s, regenerate) ==
  {IF s = "plan" /\ ~regenerate THEN Resp(400, "detail", NoPlan)
                                ELSE Resp(200, "data", "plan"),
   Resp(500, "detail", NoPlan)} \cup FaultResponses

\* The backend after answering a generate request with resp: the plan is
\* stored when it answers 200, and may have been when the answer was lost.
StoredAfterGenerate(s, resp) ==
  IF resp.status = 200 THEN {"plan"}
  ELSE IF resp.status = 0 THEN {s, "plan"}
  ELSE {s}

InitStoredPlan ==
  /\ cfg \in ProfilePageConfigs
  /\ srv \in {"profile", "plan"}
  /\ srvHist = {srv}
  /\ cookie = (IF cfg.tree = "B" THEN "tok" ELSE "none")
  /\ session = Session("profile", FALSE, TRUE, NoError)
  /\ isRedirecting = FALSE
  /\ mounted = FALSE
  /\ inflight = {}
  /\ issued = 1
  /\ settled = {[seq |-> 1, user |-> "profile", fetched |-> TRUE]}
  /\ applied = 1
  /\ calls = 0
  /\ nav = <<>>
  /\ renderLog = <<"spinner", PageGuardRender(cfg, session, FALSE)>>
  /\ deps = GuardDeps(cfg, session)
  /\ ev = Event("init", "none", 0, NoResp, NoOutcome, cookie)
  /\ page = PlanPageInit
  /\ pending = {}
  /\ env = Env(0, 0, 0)

\* What a step of this page leaves alone when the backend may change.
StoredPlanUnchanged ==
  UNCHANGED <<cfg, session, isRedirecting, inflight, issued, settled, applied,
              renderLog, deps, env>>

\* The mount effect, and tree A's retry button: fetchPlan().
StoredPlanFetch ==
  /\ page.name = "plan"
  /\ calls < MaxPageCalls
  /\ \/ ~mounted
     \/ mounted /\ cfg.tree = "A" /\ PlanView(cfg.tree, page).body = "error"
  /\ mounted' = TRUE
  /\ \E resp \in StoredPlanResponses(srv) :
       IssuePageRequest("fetchPlan", "getTrainingPlan", resp, FALSE)
  /\ UNCHANGED <<page, srv, srvHist>>
  /\ StoredPlanUnchanged

\* A click on a generate / regenerate button that is shown and enabled.
StoredPlanGenerate ==
  /\ page.name = "plan" /\ mounted
  /\ ~page.isGenerating
  /\ calls < MaxPageCalls
  /\ PlanView(cfg.tree, page).body \in {"cta", "plan"}
  /\ \E resp \in GenerateResponses(srv, RegenerateFlag(cfg.tree, page)) :
       /\ IssuePageRequest("generate", "generateTrainingPlan", resp,
                           RegenerateFlag(cfg.tree, page))
       /\ srv' \in StoredAfterGenerate(srv, resp)
  /\ srvHist' = srvHist \cup {srv'}
  /\ page' = GeneratePlanStart(page)
  /\ UNCHANGED mounted
  /\ StoredPlanUnchanged

NextStoredPlan ==
  StoredPlanFetch \/ StoredPlanGenerate \/ PlanFetchSettle \/ PlanGenerateSettle

SpecStoredPlan == InitStoredPlan /\ [][NextStoredPlan]_vars

\* A generate request is sent in this step.
GenerateSent == ev' # ev /\ ev'.op = "generate"

\* C16: every generate request carries regenerate=true when the backend holds
\* a plan at the moment it is sent, and regenerate=false when it holds none.
C16_RegenerateIffPlanExists ==
  [][GenerateSent =>
       \A r \in pending' \ pending : r.flag = (srv = "plan")]_vars

----------------------------------------------------------------------------
(* The runs page's sync action *)

\* The sync endpoint has answered in this step.
SyncAnswered == ev' # ev /\ ev'.op = "syncSettled"

\* The full-list fetch the sync handler issues in this step.
SyncRefetches ==
  {r \in pending' \ pending : r.op = "fetchRuns" /\ r.ep = "getRuns" /\ r.flag}

\* The sync handler's own fetch whose successful answer arrives in this step.
SyncRefetchLoaded ==
  {r \in pending \ pending' :
     /\ r.op = "fetchRuns" /\ r.flag
     /\ ev'.op = "fetchRunsSettled" /\ ev'.seq = r.id /\ ev'.o.ok}

----------------------------------------------------------------------------
(* The order of a successful onboarding submission *)

\* The onboarding handler pushes "/dashboard" in this step.
DashboardPushed ==
  \E i \in (Len(nav) + 1)..Len(nav') : nav'[i] = <<"page", "/dashboard">>

\* C18: the onboarding handler navigates to the dashboard only once the
\* session refresh that follows the profile's creation has settled, with no
\* user fetch outstanding and the session's user carrying has_profile.
C18_NavigateAfterRefreshSettled ==
  [][(page.name = "onboarding" /\ DashboardPushed) =>
       /\ inflight' = {}
       /\ ~session'.isLoading
       /\ HasProfile(session'.user)]_vars

----------------------------------------------------------------------------
(* Who writes the session and the token cookie *)

\* The handlers that belong to the session provider: its mount effect, its
\* refresh, the continuation of its user fetch, and its logout.
ProviderOps == {"mount", "refresh", "deliver", "logout", "logoutSettled"}

\* C19: a step that changes the session object or the token cookie is a step
\* of one of the session provider's operations; an operation of the API
\* client or a page handler leaves both as they are.
C19_OnlyProviderWrites ==
  [][(session' # session \/ cookie' # cookie) => ev'.op \in ProviderOps]_vars

----------------------------------------------------------------------------
(* The route guard as a three-state machine *)

\* The guard's effect pushes a route in this step, and the route it pushes.
GuardPushed == Len(nav') > Len(nav) /\ Last(nav')[1] = "guard"
GuardPushTarget == Last(nav')[2]

\* The session the guard sees lacks a profile that the page requires.
ProfileMissing(c, s) ==
  SignedIn(c.tree, s) /\ c.requireProfile /\ ~HasProfile(s.user)

\* C20: the guard pushes a route only in DENIED, "/" exactly when the session
\* is not signed in and "/onboarding" exactly when it is signed in and lacks
\* a required profile; a session that settles as denied gets its push; and
\* children are on screen only in GRANTED.
C20_GuardStateMachine ==
  [][/\ GuardPushed =>
          /\ GuardState(cfg, session', isRedirecting') = "DENIED"
          /\ GuardPushTarget = "/" <=> ~SignedIn(cfg.tree, session')
          /\ GuardPushTarget = "/onboarding" <=> ProfileMissing(cfg, session')
     /\ (/\ deps' # deps
         /\ ~session'.isLoading
         /\ ~SignedIn(cfg.tree, session') \/ ProfileMissing(cfg, session')) =>
          /\ GuardPushed
          /\ GuardState(cfg, session', isRedirecting') = "DENIED"
     /\ Last(renderLog') = "children" <=>
          GuardState(cfg, session', isRedirecting') = "GRANTED"
     /\ Last(renderLog') = "children" =>
          /\ ~session'.isLoading
          /\ SignedIn(cfg.tree, session')
          /\ ~ProfileMissing(cfg, session')
     /\ GuardState(cfg, session', isRedirecting') = "PENDING" <=>
          session'.isLoading]_vars

\* A user fetch has settled on a signed-in user without a profile on a page
\* that requires one: the guard is DENIED, shows no children and has pushed
\* "/onboarding".
C20_Witness ==
  /\ ev.op = "deliver" /\ ev.o.ok
  /\ cfg.requireProfile
  /\ ProfileMissing(cfg, session)
  /\ GuardState(cfg, session, isRedirecting) = "DENIED"
  /\ Last(renderLog) # "children"
  /\ Len(nav) > 0 /\ Last(nav) = <<"guard", "/onboarding">>

----------------------------------------------------------------------------
(* Overlapping user fetches *)

\* refresh() of tree A is invoked in this step.
RefreshInvoked == cfg.tree = "A" /\ ev' # ev /\ ev'.op = "refresh"

\* The answer to a user fetch of tree A is consumed in this step.
FetchDelivered == cfg.tree = "A" /\ ev' # ev /\ ev'.op = "deliver"

\* C21: every refresh() puts its own request on the wire, whatever is already
\* outstanding, and the session after an answer is consumed is the outcome of
\* that answer, whichever request it belongs to.
C21_LastSettledWins ==
  [][/\ RefreshInvoked =>
          /\ inflight \subseteq inflight'
          /\ \E r \in inflight' \ inflight : r.seq = issued'
     /\ FetchDelivered =>
          /\ applied' = ev'.seq
          /\ session'.user = (IF ev'.o.ok THEN ev'.o.data ELSE NoUser)
          /\ session'.isAuthenticated = ev'.o.ok
          /\ ~session'.isLoading]_vars

\* Two refreshes overlapped, the later request settled first, and the session
\* now holds the answer of the earlier one, which differs.
C21_Witness ==
  /\ cfg.tree = "A" /\ inflight = {}
  /\ ev.op = "deliver" /\ ev.seq = 2 /\ ev.o.ok
  /\ session.user = ev.o.data
  /\ \E f \in settled : f.seq = 3 /\ f.fetched /\ f.user # session.user

----------------------------------------------------------------------------
(* The week the dashboard selects *)

\* The positions of the weeks whose seven days starting at start_date hold
\* the local calendar day d.
WeeksContaining(weeks, d) ==
  {k \in 1..Len(weeks) :
     weeks[k].start_date <= d /\ d < weeks[k].start_date + 7}

\* C22: the week the dashboard selects is the first week in list order whose
\* interval [start_date, start_date + 7 days) contains today, and the first
\* week of the list when no week contains today.
C22_FirstContainingWeekOrFirst ==
  (page.name = "dashboard" /\ page.currentWeek # NoWeek) =>
    LET m == WeeksContaining(page.weeks, page.asOf.day)
    IN page.currentWeek =
         IF m # {} THEN page.weeks[Min(m)].week_number
         ELSE page.weeks[1].week_number

----------------------------------------------------------------------------
(* The plan page's per-week disclosure *)

\* The plan page with its disclosure state: tree A keeps a Set of week
\* numbers that starts as {1}, tree B a single week number or null, held
\* here as a set of at most one element. weeks and fmt are the weeks of the
\* plan the backend holds and the format of their dates.
PlanDisclosureInit(tree, fmt) ==
  [name |-> "plan", plan |-> NoPlan, isLoading |-> TRUE,
   isGenerating |-> FALSE, error |-> NoError,
   expanded |-> IF tree = "A" THEN {1} ELSE {},
   weeks |-> PlanWeeks(14), fmt |-> fmt]

\* Tree B's fetchPlan after setPlan: the first week that contains today is
\* expanded; tree A's fetchPlan leaves the disclosure alone.
AutoExpand(tree, pg, o, e) ==
  LET m == {k \in 1..Len(pg.weeks) : IsCurrentWeek(pg.weeks[k], pg.fmt, e)}
  IN IF tree = "B" /\ o.ok /\ m # {}
       THEN [pg EXCEPT !.expanded = {pg.weeks[Min(m)].week_number}]
       ELSE pg

\* toggleWeek(n) of tree A; the week button's onClick of tree B.
ToggleWeek(tree, pg, n) ==
  IF tree = "A"
    THEN [pg EXCEPT !.expanded = IF n \in pg.expanded THEN pg.expanded \ {n}
                                 ELSE pg.expanded \cup {n}]
    ELSE [pg EXCEPT !.expanded = IF pg.expanded = {n} THEN {} ELSE {n}]

\* expandAll and collapseAll of tree A.
ExpandAll(pg) ==
  IF pg.plan # NoPlan
    THEN [pg EXCEPT !.expanded = {pg.weeks[k].week_number : k \in 1..Len(pg.weeks)}]
    ELSE pg

CollapseAll(pg) == [pg EXCEPT !.expanded = {}]

InitDisclosure ==
  /\ env \in {Env(tz, 22, 12) : tz \in TzOffsets}
  /\ \E fmt \in DateFormats :
       InitPage(ProfilePageConfigs, "profile", PlanDisclosureInit(cfg.tree, fmt))

\* The answer to a plan fetch arrives: fetchPlan's continuation.
DisclosureFetchSettle ==
  /\ page.name = "plan"
  /\ \E r \in pending :
       /\ r.op = "fetchPlan"
       /\ LET o == ClientCall(cfg.tree, r.ep, r.resp)
          IN /\ page' = AutoExpand(cfg.tree, FetchPlanSettle(cfg.tree, page, o),
                                   o, env)
             /\ ConsumePageRequest(r, o)
  /\ PageStepUnchanged

\* A click on the header of a week of the plan shown.
DisclosureToggle ==
  /\ page.name = "plan" /\ mounted
  /\ PlanView(cfg.tree, page).body = "plan"
  /\ \E k \in 1..Len(page.weeks) :
       page' = ToggleWeek(cfg.tree, page, page.weeks[k].week_number)
  /\ ev' = Event("toggleWeek", "none", 0, NoResp, NoOutcome, cookie)
  /\ UNCHANGED <<cookie, mounted, calls, nav, pending>>
  /\ PageStepUnchanged

\* A click on Expand All or Collapse All of tree A.
DisclosureAll ==
  /\ page.name = "plan" /\ mounted /\ cfg.tree = "A"
  /\ PlanView(cfg.tree, page).body = "plan"
  /\ page' \in {ExpandAll(page), CollapseAll(page)}
  /\ page' # page
  /\ ev' = Event("expandCollapseAll", "none", 0, NoResp, NoOutcome, cookie)
  /\ UNCHANGED <<cookie, mounted, calls, nav, pending>>
  /\ PageStepUnchanged

NextDisclosure ==
  \/ PlanMount \/ PlanRetry \/ PlanGenerate \/ PlanGenerateSettle
  \/ DisclosureFetchSettle \/ DisclosureToggle \/ DisclosureAll

SpecDisclosure == InitDisclosure /\ [][NextDisclosure]_vars

\* A request of the plan page is sent or answered in this step.
PlanRequestStep == pending' # pending

\* A week header is clicked in this step.
WeekToggled == ev'.op = "toggleWeek" /\ page' # page

\* C23: sending and answering the plan page's fetch, retry and generate
\* requests leaves the expanded weeks as they were, and a click on a week
\* changes the expansion of exactly one week number.
C23_DisclosureIndependentOfFetch ==
  [][/\ PlanRequestStep => page'.expanded = page.expanded
     /\ WeekToggled =>
          Cardinality((page'.expanded \ page.expanded)
                        \cup (page.expanded \ page'.expanded)) = 1]_vars

----------------------------------------------------------------------------
(* A guarded page's own fetch during page load *)

ProtectedEndpoints == {"getProfile", "getTrainingPlan", "getRuns"}

\* The mount effect of a page view. The pages of tree A declare the effect in
\* the page component and render ProtectedRoute inside it, so the effect runs
\* with the first commit; the pages of tree B put the effect in a Content
\* component rendered as the guard's child, so it runs once the guard renders
\* its children.
PageEffect ==
  /\ calls = 0
  /\ cfg.tree = "B" => Last(renderLog) = "children"
  /\ \E ep \in ProtectedEndpoints :
       \E resp \in EndpointResponses(ep) :
         IssuePageRequest("pageFetch", ep, resp, FALSE)
  /\ UNCHANGED <<page, mounted>>
  /\ PageStepUnchanged

\* The answer to the page's request arrives.
PageEffectSettle ==
  /\ \E r \in pending :
       /\ r.op = "pageFetch"
       /\ ConsumePageRequest(r, ClientCall(cfg.tree, r.ep, r.resp))
  /\ UNCHANGED page
  /\ PageStepUnchanged

NextGuardedPage == Mount \/ Deliver \/ PageEffect \/ PageEffectSettle

SpecGuardedPage == Init /\ [][NextGuardedPage]_vars

\* The page view sends a request for a protected resource in this step.
ProtectedRequestSent ==
  \E r \in pending' \ pending : r.op = "pageFetch" /\ r.ep \in ProtectedEndpoints

\* C24: a page view sends a request for a protected resource only when the
\* route guard of that mount is GRANTED, never while the session is loading
\* or not signed in.
C24_GuardBeforeFetch ==
  [][ProtectedRequestSent =>
       /\ GuardState(cfg, session, isRedirecting) = "GRANTED"
       /\ ~session.isLoading
       /\ SignedIn(cfg.tree, session)]_vars

----------------------------------------------------------------------------
(* Loading flags: the session's and the dashboard, plan and runs pages'     *)

\* The session provider's load on its own, with no page state.
SessionLoad == page = NoPage /\ (Mount \/ Deliver)

InitViews == Init \/ InitDashboard \/ InitPlan \/ InitRuns

\* The loads of the pages: the mount's fetch, its answer, and the retry.
PlanLoad == PlanMount \/ PlanRetry \/ PlanFetchSettle

RunsLoad == RunsMount \/ RunsRetry \/ RunsFetchSettle

NextViews == SessionLoad \/ NextDashboard \/ PlanLoad \/ RunsLoad

\* Every mount effect runs and every request sent is answered in the end:
\* nothing in the code cancels a request or gives up on one.
FairViews ==
  /\ WF_vars(page = NoPage /\ Mount) /\ WF_vars(page = NoPage /\ Deliver)
  /\ WF_vars(DashboardMount) /\ WF_vars(DashboardSettle)
  /\ WF_vars(PlanMount) /\ WF_vars(PlanFetchSettle)
  /\ WF_vars(RunsMount) /\ WF_vars(RunsFetchSettle)

SpecViews == InitViews /\ [][NextViews]_vars /\ FairViews

\* The loading flag of the view in question.
ViewLoading == IF page = NoPage THEN session.isLoading ELSE page.isLoading

\* A request is answered in this step.
RequestSettles == inflight \ inflight' # {} \/ pending \ pending' # {}

\* C25: a view's loading flag is cleared only by a step in which one of its
\* requests settles (or by the completion of a load that sent no request),
\* and with every request answered a loading view always leaves its loading
\* state, after a success and after a failure.
C25_LoadingEndsWhenRequestsSettle ==
  /\ [][(ViewLoading /\ ~ViewLoading') =>
          (RequestSettles \/ (inflight = {} /\ pending = {}))]_vars
  /\ (ViewLoading ~> ~ViewLoading)

\* The dashboard has left its loading state through a failed request.
C25_Witness ==
  /\ page.name = "dashboardFetch" /\ mounted /\ pending = {}
  /\ ~ViewLoading
  /\ page.error # NoError
  /\ ev.op = "fetchDataSettled" /\ ~ev.o.ok

----------------------------------------------------------------------------
(* The session provider through all of its operations *)

\* refresh() invoked while no request is outstanding; overlapping refreshes
\* are the subject of Spec.
RefreshWhenIdle == inflight = {} /\ pending = {} /\ Refresh

NextProvider == Mount \/ RefreshWhenIdle \/ Deliver \/ Logout \/ LogoutSettle

\* Tree A's provider under its plain guard on a page that requires a profile.
InitProvider ==
  Init /\ cfg = [tree |-> "A", guard |-> "plain", requireProfile |-> TRUE]

SpecProvider == InitProvider /\ [][NextProvider]_vars

\* C26: in every state of tree A's session provider isAuthenticated is true
\* exactly when user is non-null, and an error is held only while
\* isAuthenticated is false.
C26_AuthenticatedIffUser ==
  cfg.tree = "A" =>
    /\ session.isAuthenticated <=> session.user # NoUser
    /\ session.error # NoError => ~session.isAuthenticated

\* A signed-in session was refreshed, the refresh failed, and a further
\* refresh is loading: the error is held, no user, not authenticated.
C26_Witness ==
  /\ cfg.tree = "A"
  /\ session.isLoading /\ session.error # NoError
  /\ session.user = NoUser /\ ~session.isAuthenticated
  /\ \E f \in settled : f.fetched /\ f.user # NoUser
  /\ ev.op = "refresh"

----------------------------------------------------------------------------
(* Busy flags of the user-triggered actions: sync and generate *)

InitBusy == InitRuns \/ InitPlan

NextBusy == NextRuns \/ NextPlan

SpecBusy == InitBusy /\ [][NextBusy]_vars

\* A request of the sync handler's chain is outstanding: its POST, or the
\* fetch it awaits afterwards.
SyncChainOutstanding ==
  \E r \in pending : r.op = "sync" \/ (r.op = "fetchRuns" /\ r.flag)

GenerateOutstanding == \E r \in pending : r.op = "generate"

\* C27: the syncing flag is set exactly while a request of the sync chain is
\* outstanding, and the generating flag exactly while the generate request
\* is; both are clear again after success and after every failure.
C27_BusyWhileOutstanding ==
  /\ page.name = "runs" => (page.isSyncing <=> SyncChainOutstanding)
  /\ page.name = "plan" => (page.isGenerating <=> GenerateOutstanding)

\* A sync whose POST succeeded and whose re-fetch failed has ended: the
\* message and the error are shown and the syncing flag is clear.
C27_Witness ==
  /\ page.name = "runs" /\ cfg.tree = "B"
  /\ ev.op = "fetchRunsSettled" /\ ev.seq = 3 /\ ~ev.o.ok
  /\ page.syncMessage = "message" /\ page.error # NoError
  /\ pending = {}
  /\ ~page.isSyncing

----------------------------------------------------------------------------
(* The isRedirecting flag of the guard variant that has one *)

\* The guard's effect has pushed a route during this mount.
GuardHasNavigated == \E i \in 1..Len(nav) : nav[i][1] = "guard"

\* C28: in the guard variant with the isRedirecting flag, the flag is set
\* once the guard has issued a navigation and is never reset, and while it
\* is set the guard shows the spinner, whatever the session becomes.
C28_RedirectingLatch ==
  [][cfg.guard = "latch" =>
       /\ isRedirecting => isRedirecting'
       /\ GuardHasNavigated' => isRedirecting'
       /\ isRedirecting' => Last(renderLog') = "spinner"]_vars

\* The guard redirected a signed-out visitor; the session has since become
\* signed in with a profile, and the guard still shows the spinner.
C28_Witness ==
  /\ cfg.guard = "latch"
  /\ isRedirecting /\ GuardHasNavigated
  /\ ~session.isLoading /\ session.isAuthenticated /\ HasProfile(session.user)
  /\ Last(renderLog) = "spinner"

----------------------------------------------------------------------------
(* The token callback page of tree B: /auth/callback?token=...              *)

\* The callback page: route is the page on screen, timer the state of the
\* 500 ms setTimeout that pushes "/onboarding".
TokenCallbackInit ==
  [name |-> "callback", route |-> "/auth/callback", timer |-> "idle"]

\* The backend knows the user the token stands for; the browser holds no
\* cookie yet, and neither the provider's nor the page's effect has run.
InitTokenCallback ==
  /\ cfg = [tree |-> "B", guard |-> "none", requireProfile |-> FALSE]
  /\ srv \in {"noprofile", "profile"}
  /\ srvHist = {srv}
  /\ cookie = "none"
  /\ session = InitialSession
  /\ isRedirecting = FALSE
  /\ mounted = FALSE
  /\ inflight = {}
  /\ issued = 0
  /\ settled = {}
  /\ applied = 0
  /\ calls = 0
  /\ nav = <<>>
  /\ renderLog = <<"spinner">>
  /\ deps = <<>>
  /\ ev = Event("init", "none", 0, NoResp, NoOutcome, cookie)
  /\ page = TokenCallbackInit
  /\ pending = {}
  /\ env = Env(0, 0, 0)

\* The page's effect with a token in the URL: login(token) stores the cookie
\* and calls refreshUser() without awaiting it, then the timer is set.
TokenLogin ==
  /\ page.name = "callback" /\ page.timer = "idle"
  /\ cookie' = "tok"
  /\ \E resp \in MeResponses : IssueFetch(resp, "refreshUser")
  /\ page' = [page EXCEPT !.timer = "armed"]
  /\ ev' = Event("login", "getMe", issued + 1, NoResp, NoOutcome, cookie)
  /\ UNCHANGED <<cfg, srv, srvHist, session, isRedirecting, mounted, calls,
                 nav, renderLog, deps, pending, env>>

\* The timer fires: router.push("/onboarding"). The onboarding page mounts
\* under ProtectedRoute requireProfile={false}, whose first render and
\* effect see the session as it is now.
TokenTimerFires ==
  /\ page.name = "callback" /\ page.timer = "armed"
  /\ LET c2 == [tree |-> "B", guard |-> "src", requireProfile |-> FALSE]
         tgt == GuardEffectTarget(c2, session)
         pushed == Append(nav, <<"page", "/onboarding">>)
     IN /\ cfg' = c2
        /\ deps' = GuardDeps(c2, session)
        /\ nav' = IF tgt # "none" THEN Append(pushed, <<"guard", tgt>>)
                  ELSE pushed
        /\ renderLog' = AppendIfNew(renderLog, GuardRender(c2, session, FALSE))
  /\ page' = [page EXCEPT !.timer = "fired", !.route = "/onboarding"]
  /\ ev' = Event("timer", "none", 0, NoResp, NoOutcome, cookie)
  /\ UNCHANGED <<srv, srvHist, cookie, session, isRedirecting, mounted,
                 inflight, issued, settled, applied, calls, pending, env>>

NextTokenCallback == Mount \/ TokenLogin \/ TokenTimerFires \/ Deliver

SpecTokenCallback == InitTokenCallback /\ [][NextTokenCallback]_vars

\* The backend accepted the token: no user fetch of this page load failed
\* or is going to.
TokenAccepted ==
  /\ \A r \in inflight : RespOk(r.resp)
  /\ \A f \in settled : f.fetched => f.user # NoUser

\* C29: after login(token) with a token the backend accepts, the page goes
\* to "/onboarding" only once the session holds the fetched user, and the
\* guard of "/onboarding" never redirects that login to "/".
C29_LoginNeverRedirectedToRoot ==
  (page.name = "callback" /\ TokenAccepted) =>
    /\ page.route = "/onboarding" =>
         \E f \in settled : f.fetched /\ f.user # NoUser
    /\ \A i \in 1..Len(nav) : nav[i] # <<"guard", "/">>

----------------------------------------------------------------------------
(* The cookie-session callback page of tree A: /auth/callback               *)

\* The page before its effects ran: the hook's state is the initial one.
InitCookieCallback ==
  /\ cfg = [tree |-> "A", guard |-> "callback", requireProfile |-> FALSE]
  /\ srv \in {"none", "noprofile", "profile"}
  /\ srvHist = {srv}
  /\ cookie = "none"
  /\ session = InitialSession
  /\ isRedirecting = FALSE
  /\ mounted = FALSE
  /\ inflight = {}
  /\ issued = 0
  /\ settled = {}
  /\ applied = 0
  /\ calls = 0
  /\ nav = <<>>
  /\ renderLog = <<"spinner">>
  /\ deps = <<>>
  /\ ev = Event("init", "none", 0, NoResp, NoOutcome, cookie)
  /\ page = NoPage
  /\ pending = {}
  /\ env = Env(0, 0, 0)

\* The effects of the first commit, in declaration order: useAuth's
\* fetchUser(), the page's refresh() (isLoading set, fetchUser() again), and
\* the navigation effect, which sees the loading session.
CallbackMount ==
  /\ ~mounted
  /\ mounted' = TRUE
  /\ \E r1 \in MeResponses, r2 \in MeResponses :
       inflight' = {Request(issued + 1, r1, "fetchUser"),
                    Request(issued + 2, r2, "fetchUser")}
  /\ issued' = issued + 2
  /\ Commit(RefreshStart(session), nav)
  /\ ev' = Event("mount", "getMe", issued + 2, NoResp, NoOutcome, cookie)
  /\ UNCHANGED <<settled, applied>>
  /\ UNCHANGED <<cfg, srv, srvHist, cookie, calls>>
  /\ UNCHANGED pageVars

NextCookieCallback == CallbackMount \/ Deliver

SpecCookieCallback == InitCookieCallback /\ [][NextCookieCallback]_vars

\* The step in which the page's navigation effect calls router.push.
CallbackNavigates ==
  \E i \in (Len(nav) + 1)..Len(nav') : nav'[i][1] = "guard"

\* C30: the callback page navigates only after the refresh() of its mount
\* has settled: no user fetch started during the mount is outstanding when
\* the navigation is issued.
C30_NavigationAfterRefreshSettled ==
  [][(cfg.guard = "callback" /\ CallbackNavigates) => inflight' = {}]_vars

====
